---- MODULE Spec2Model ----
(***************************************************************************)
(* Import / reconciliation pipeline of rydey/xfiles.                       *)
(*                                                                         *)
(* The persistent store (contacts, messages) is shared by the importers    *)
(* (AdvancedLogImporter, SMSInstantLogParser) and by the correction        *)
(* scripts (normalizePhoneNumbers, fixToMessagesWithoutReceiver,           *)
(* fixPhoneOwnerMessages).  Text is a sequence of one-character strings;   *)
(* a time token HH:MM:SS(UTC+0) is one symbol of such a sequence.  Lines   *)
(* of the input file are token records (see StartLine / ContLine).         *)
(***************************************************************************)
EXTENDS Integers, Sequences, FiniteSets, TLC

\* ------------------------------------------------------------------ bounds
MaxLines == 4        \* lines read from the input stream in one run
MaxBatch == 2        \* largest --batch-size tried
MaxNormContacts == 4 \* contacts in the store normalizePhoneNumbers starts from
MaxNormMsgs == 2     \* messages in that store
MaxDigits == 7       \* digits after the prefix of a phone number given to normalizePhoneNumber
MaxPassMsgs == 3     \* messages in the store a message-fixing pass starts from
MaxTs == 3           \* distinct timestamps of those messages
MaxFaults == 1       \* updates the database rejects during one correction pass

\* ------------------------------------------------------------- text helpers
NoId == 0            \* null contact / message id (database ids start at 1)
NoText == <<>>       \* undefined / empty string
NullText == <<"<null>">>   \* SQL NULL in a nullable text column

Blanks == {" ", "-", "(", ")"}
Digits == {"0", "1", "2", "3", "4", "5", "6", "7", "8", "9"}

StartsWith(s, p) == Len(s) >= Len(p) /\ SubSeq(s, 1, Len(p)) = p

AllDigits(s) == \A i \in 1..Len(s) : s[i] \in Digits

IsBlankChar(c) == c \in Blanks

\* String.prototype.includes
Includes(s, p) ==
    \E i \in 0..(Len(s) - Len(p)) : \A j \in 1..Len(p) : s[i + j] = p[j]

RECURSIVE JoinWith(_, _)
JoinWith(parts, sep) ==
    IF Len(parts) = 0 THEN <<>>
    ELSE IF Len(parts) = 1 THEN parts[1]
    ELSE parts[1] \o sep \o JoinWith(Tail(parts), sep)

\* ------------------------------------------------------------- phone numbers
Plus960 == <<"+", "9", "6", "0">>

\* the local rule puts +960 before the text as it was given
normalizePhoneNumber_prefixRaw(phoneNumber) ==
    LET cleaned == SelectSeq(phoneNumber, LAMBDA c : ~IsBlankChar(c)) IN
    IF phoneNumber = NoText THEN phoneNumber
    ELSE IF StartsWith(cleaned, Plus960) THEN cleaned
    ELSE IF StartsWith(cleaned, <<"9", "6", "0">>) THEN <<"+">> \o cleaned
    ELSE IF Len(cleaned) = 7 /\ cleaned[1] = "7" /\ AllDigits(cleaned)
         THEN Plus960 \o phoneNumber
    ELSE IF Len(cleaned) = 6 /\ AllDigits(cleaned)
         THEN Plus960 \o <<"7">> \o cleaned
    ELSE phoneNumber

\* the six-digit rule is tried before the 960 rule
normalizePhoneNumber_sixFirst(phoneNumber) ==
    LET cleaned == SelectSeq(phoneNumber, LAMBDA c : ~IsBlankChar(c)) IN
    IF phoneNumber = NoText THEN phoneNumber
    ELSE IF StartsWith(cleaned, Plus960) THEN cleaned
    ELSE IF Len(cleaned) = 6 /\ AllDigits(cleaned)
         THEN Plus960 \o <<"7">> \o cleaned
    ELSE IF StartsWith(cleaned, <<"9", "6", "0">>) THEN <<"+">> \o cleaned
    ELSE IF Len(cleaned) = 7 /\ cleaned[1] = "7" /\ AllDigits(cleaned)
         THEN Plus960 \o cleaned
    ELSE phoneNumber

normalizePhoneNumber(phoneNumber) ==
    LET cleaned == SelectSeq(phoneNumber, LAMBDA c : ~IsBlankChar(c)) IN
    IF phoneNumber = NoText THEN phoneNumber
    ELSE IF StartsWith(cleaned, Plus960) THEN cleaned
    ELSE IF StartsWith(cleaned, <<"9", "6", "0">>) THEN <<"+">> \o cleaned
    ELSE IF Len(cleaned) = 7 /\ cleaned[1] = "7" /\ AllDigits(cleaned)
         THEN Plus960 \o cleaned
    ELSE IF Len(cleaned) = 6 /\ AllDigits(cleaned)
         THEN Plus960 \o <<"7">> \o cleaned
    ELSE phoneNumber

\* The phone strings the inputs are drawn from.
PhoneLocal == <<"7", "7", "7", "1", "2", "3", "4">>
PhoneCanon == Plus960 \o PhoneLocal
PhoneSpaced == <<"7", "7", "7", " ", "1", "2", "3", "4">>
PhoneNoPlus == <<"9", "6", "0">> \o PhoneLocal
PhoneSix == <<"7", "7", "1", "2", "3", "4">>
PhoneOther == Plus960 \o <<"7", "9", "9", "9", "9", "9", "9">>
PhoneOtherLocal == <<"7", "9", "9", "9", "9", "9", "9">>
PhoneForeign == <<"+", "4", "4", "1", "2">>

\* --------------------------------------------------------------- the store
\* contacts: id -> [phoneNumber, name]  (phoneNumber is a unique column: both
\* importers and the normalizer look contacts up with findUnique({phoneNumber})).
\* messages: sequence of rows, the row's id is its index.
VARIABLES contacts, nextContactId, messages

\* ------------------------------------------------------- the import session
VARIABLES importer, options, pc, linesRead, currentRecord, recordType,
          isProcessingMessage, batch, contactCache, lastContactId, stats

\* ------------------------------------------------------------- observations
\* store0: the store the run started from.  handed: the parsed records pushed
\* to a batch so far.  lastIns, prevIns: what the last two insertMessage calls
\* of the run did.  trace: when switched on, the lines read so far and the
\* records (lists of lines) given to the record parser so far.
VARIABLES store0, handed, lastIns, prevIns, trace

\* ------------------------------------------------------ a correction pass
VARIABLES pass

storeVars == <<contacts, nextContactId, messages>>
sessionVars == <<importer, options, pc, linesRead, currentRecord,
                 recordType, isProcessingMessage, batch, contactCache,
                 lastContactId, stats>>
obsVars == <<store0, handed, lastIns, prevIns, trace>>
vars == <<contacts, nextContactId, messages, importer, options, pc,
          linesRead, currentRecord, recordType, isProcessingMessage, batch,
          contactCache, lastContactId, stats, store0, handed, lastIns, prevIns,
          trace, pass>>

Ids(cs) == DOMAIN cs

\* prisma.contact.findUnique({ where: { phoneNumber } }): the id, or NoId
findContactByPhone(cs, phoneNumber) ==
    IF \E i \in DOMAIN cs : cs[i].phoneNumber = phoneNumber
    THEN CHOOSE i \in DOMAIN cs : cs[i].phoneNumber = phoneNumber
    ELSE NoId

PutContact(cs, id, row) ==
    [i \in DOMAIN cs \cup {id} |-> IF i = id THEN row ELSE cs[i]]

DropContact(cs, id) == [i \in DOMAIN cs \ {id} |-> cs[i]]

PutCache(cache, phoneNumber, id) ==
    [p \in DOMAIN cache \cup {phoneNumber} |->
        IF p = phoneNumber THEN id ELSE cache[p]]

EmptyMap == [x \in {} |-> NoId]

\* ------------------------------------------------------------- input lines
\* A line of the export, as the tokens its regular expressions look for:
\*   [<id>] <rtype> [<dir>] <dd/mm/yyyy> [<marker> <phone> [<name>]] [<text>]
\* or a continuation  [<HH:MM:SS(UTC+0)>] <text>.  Tokens are separated by one
\* space, a phone is one token without white space, free text holds none of
\* the record-type tokens or markers, and a line has no leading white space.
\* wide: a start line without a direction token has two spaces, not one,
\* between the record type and the date.
BlankLine ==
    [blank |-> TRUE, id |-> FALSE, rtype |-> "", dir |-> "", date |-> 0,
     marker |-> "", phone |-> NoText, name |-> NoText, text |-> NoText, time |-> 0,
     wide |-> FALSE]

StartLine(id, rtype, dir, date, marker, phone, name, text) ==
    [blank |-> FALSE, id |-> id, rtype |-> rtype, dir |-> dir, date |-> date,
     marker |-> marker, phone |-> phone, name |-> name, text |-> text, time |-> 0,
     wide |-> FALSE]

WideStartLine(id, rtype, date, marker, phone, name, text) ==
    [StartLine(id, rtype, "", date, marker, phone, name, text) EXCEPT !.wide = TRUE]

\* 'Calendar <dd/mm/yyyy> [<h:mm AM|PM> - ]<text>'
CalendarLine(date, time, text) ==
    [StartLine(FALSE, "Calendar", "", date, "", NoText, NoText, text)
        EXCEPT !.time = time]

ContLine(time, text) ==
    [blank |-> FALSE, id |-> FALSE, rtype |-> "", dir |-> "", date |-> 0,
     marker |-> "", phone |-> NoText, name |-> NoText, text |-> text, time |-> time,
     wide |-> FALSE]

TimeSym == <<"<T1>", "<T2>">>
DateSym == <<"<D1>", "<D2>">>
IsTimeSym(c) == \E t \in DOMAIN TimeSym : TimeSym[t] = c

\* The characters of a line, every fixed token one symbol.
RawText(line) ==
    LET parts ==
          (IF line.id THEN << <<"<id>">> >> ELSE <<>>)
       \o (IF line.rtype # "" THEN << <<line.rtype>> >> ELSE <<>>)
       \o (IF line.dir # "" THEN << <<line.dir>> >> ELSE <<>>)
       \o (IF line.wide THEN << <<>> >> ELSE <<>>)
       \o (IF line.date > 0 THEN << <<DateSym[line.date]>> >> ELSE <<>>)
       \o (IF line.marker # "" THEN << <<line.marker>> >> ELSE <<>>)
       \o (IF line.phone # NoText THEN <<line.phone>> ELSE <<>>)
       \o (IF line.name # NoText THEN <<line.name>> ELSE <<>>)
       \o (IF line.time > 0 THEN << <<TimeSym[line.time]>> >> ELSE <<>>)
       \o (IF line.text # NoText THEN <<line.text>> ELSE <<>>)
    IN JoinWith(parts, <<" ">>)

RECURSIVE TrimLeft(_)
TrimLeft(s) == IF s # <<>> /\ Head(s) \in {" ", "\n"} THEN TrimLeft(Tail(s)) ELSE s

RECURSIVE TrimRight(_)
TrimRight(s) ==
    IF s # <<>> /\ s[Len(s)] \in {" ", "\n"}
    THEN TrimRight(SubSeq(s, 1, Len(s) - 1)) ELSE s

\* String.prototype.trim
Trim(s) == TrimLeft(TrimRight(s))

\* line.replace(/\d{2}:\d{2}:\d{2}\(UTC\+0\)/, ''): the first time token goes
RECURSIVE DropFirstTime(_)
DropFirstTime(s) ==
    IF s = <<>> THEN s
    ELSE IF IsTimeSym(Head(s)) THEN Tail(s)
    ELSE <<Head(s)>> \o DropFirstTime(Tail(s))

DefaultSMS == <<"S", "M", "S", " ", "m", "e", "s", "s", "a", "g", "e">>
DefaultInstant == <<"I", "n", "s", "t", "a", "n", "t", " ", "m", "e", "s", "s", "a", "g", "e">>
DefaultCall == <<"C", "a", "l", "l">>
DefaultNoContent == <<"N", "o", " ", "c", "o", "n", "t", "e", "n", "t">>

\* new Date(year, month - 1, day [, h, m, s]) as a number that keeps the order
parseDate(date) == date * 10
parseTimestamp(date, time) == date * 10 + time

Unparsed ==
    [ok |-> FALSE, messageType |-> "", direction |-> "", senderNumber |-> NoText,
     senderName |-> NoText, receiverNumber |-> NoText, receiverName |-> NoText,
     phoneNumber |-> NoText, name |-> NoText, content |-> NoText, timestamp |-> 0,
     rawLine |-> <<>>]

ContTexts(lines) == [i \in 1..(Len(lines) - 1) |-> RawText(lines[i + 1])]

Upper(dir) == IF dir = "From" THEN "FROM" ELSE IF dir = "To" THEN "TO" ELSE "UNKNOWN"

OrDefault(content, default) == IF Trim(content) = NoText THEN default ELSE Trim(content)

\* ------------------------------------------ AdvancedLogImporter: the parsers
\* line.startsWith('SMS') || 'Call Log' || 'Calendar' || 'Instant'
isRecordStart(line) == ~line.blank /\ ~line.id /\ line.rtype # ""

detectRecordType(line) ==
    IF line.rtype = "SMS" THEN "SMS"
    ELSE IF line.rtype = "Call Log" THEN "CALL"
    ELSE IF line.rtype = "Calendar" THEN "CALENDAR"
    ELSE IF line.rtype = "Instant" THEN "INSTANT"
    ELSE "UNKNOWN"

\* parseSMS and parseInstant: three patterns, the first that matches.
\*  1: <type> <dir> <date> <marker> <phone>? <name>? \n <content>   (dot-all)
\*  2: <type> <dir> <date> <marker> <phone>
\*  3: <type> <dir> <date>
\* In pattern 1 the white space after the phone reaches over the line end, so
\* with no name on the start line and two or more continuation lines the
\* first continuation line is taken as the name.
parseTextRecord(lines, messageType, default) ==
    LET s == lines[1]
        ct == ContTexts(lines)
        pattern1 == s.marker # "" /\ Len(ct) >= 1
        number == IF s.marker # "" THEN s.phone ELSE NoText
        name == IF ~pattern1 THEN NoText
                ELSE IF s.name # NoText THEN s.name
                ELSE IF Len(ct) >= 2 THEN ct[1] ELSE NoText
        content == IF ~pattern1 THEN NoText
                   ELSE IF s.name # NoText \/ Len(ct) = 1
                        THEN JoinWith(ct, <<"\n">>)
                   ELSE JoinWith(Tail(ct), <<"\n">>)
    IN  IF s.dir = "" \/ s.date = 0 THEN Unparsed
        ELSE [ok |-> TRUE, messageType |-> messageType, direction |-> Upper(s.dir),
              senderNumber |-> IF s.dir = "From" THEN number ELSE NoText,
              senderName |-> IF s.dir = "From" THEN Trim(name) ELSE NoText,
              receiverNumber |-> IF s.dir = "To" THEN number ELSE NoText,
              receiverName |-> IF s.dir = "To" THEN Trim(name) ELSE NoText,
              phoneNumber |-> NoText, name |-> NoText,
              content |-> OrDefault(content, default),
              timestamp |-> parseDate(s.date), rawLine |-> <<>>]

parseSMS(lines) == parseTextRecord(lines, "SMS", DefaultSMS)

parseInstant(lines) == parseTextRecord(lines, "INSTANT", DefaultInstant)

\* parseCall: the name is the rest of the start line (or, when the start line
\* ends after the phone, the first continuation line); content is 'Call'.
parseCall(lines) ==
    LET s == lines[1]
        ct == ContTexts(lines)
        number == IF s.marker # "" THEN s.phone ELSE NoText
        name == IF s.marker = "" THEN NoText
                ELSE IF s.name # NoText THEN s.name
                ELSE IF Len(ct) >= 1 THEN ct[1] ELSE NoText
    IN  IF s.dir = "" \/ s.date = 0 THEN Unparsed
        ELSE [ok |-> TRUE, messageType |-> "CALL", direction |-> Upper(s.dir),
              senderNumber |-> IF s.dir = "From" THEN number ELSE NoText,
              senderName |-> IF s.dir = "From" THEN Trim(name) ELSE NoText,
              receiverNumber |-> IF s.dir = "To" THEN number ELSE NoText,
              receiverName |-> IF s.dir = "To" THEN Trim(name) ELSE NoText,
              phoneNumber |-> NoText, name |-> NoText,
              content |-> DefaultCall,
              timestamp |-> parseDate(s.date), rawLine |-> <<>>]

\* new Date(..., NaN, NaN): parseDateTime of a text that is no time of day
InvalidDate == 0 - 1

\* parseCalendar: pattern 1 is '<date> <time> - <content>'; pattern 2 takes
\* the rest after the date (to the end of the line; the line break counts as
\* the white space after the date) as the time and leaves the content
\* undefined.
parseCalendar(lines) ==
    LET s == lines[1]
        rest == IF s.text # NoText THEN <<s>>
                ELSE IF Len(lines) >= 2 THEN <<lines[2]>> ELSE <<>>
        base == [Unparsed EXCEPT !.ok = TRUE, !.messageType = "INSTANT",
                                 !.direction = "UNKNOWN"]
    IN  IF s.date = 0 THEN Unparsed
        ELSE IF s.time > 0
        THEN [base EXCEPT !.content = Trim(s.text),
                          !.timestamp = parseTimestamp(s.date, s.time)]
        ELSE IF rest = <<>> THEN Unparsed
        ELSE [base EXCEPT !.timestamp =
                 IF rest[1].time > 0 THEN parseTimestamp(s.date, rest[1].time)
                 ELSE InvalidDate]

parseRecord(lines, rt) ==
    IF rt = "SMS" THEN parseSMS(lines)
    ELSE IF rt = "CALL" THEN parseCall(lines)
    ELSE IF rt = "CALENDAR" THEN parseCalendar(lines)
    ELSE IF rt = "INSTANT" THEN parseInstant(lines)
    ELSE Unparsed

\* processRecord: the parsed record with its raw text, or no result
processRecord(lines, rt) ==
    LET parsed == parseRecord(lines, rt) IN
    IF parsed.ok THEN [parsed EXCEPT !.rawLine = lines] ELSE Unparsed

\* ------------------------------------------- SMSInstantLogParser: the parser
\* /^\s*(\d+)\s+(SMS|Instant)\s+(From|To)?\s+(\d{2}\/\d{2}\/\d{4})/ : the two
\* \s+ around the optional direction need a direction token between the type
\* and the date, or two white-space characters.
isMessageStart(line) ==
    /\ ~line.blank /\ line.id
    /\ line.rtype \in {"SMS", "Instant"}
    /\ (line.dir # "" \/ line.wide) /\ line.date > 0

extractPhoneAndName(s) ==
    IF s.marker # ""
    THEN [phoneNumber |-> s.phone, name |-> Trim(s.name), contentStart |-> NoText]
    ELSE [phoneNumber |-> NoText, name |-> NoText, contentStart |-> Trim(s.text)]

determineDirection(dir, phoneNumber) ==
    IF dir = "From" THEN "FROM"
    ELSE IF dir = "To" THEN "TO"
    ELSE IF phoneNumber # NoText THEN "FROM"
    ELSE "UNKNOWN"

\* the time of the last continuation line that holds a time token (0: none)
RECURSIVE LastTime(_)
LastTime(conts) ==
    IF conts = <<>> THEN 0
    ELSE IF conts[Len(conts)].time > 0 THEN conts[Len(conts)].time
    ELSE LastTime(SubSeq(conts, 1, Len(conts) - 1))

contentLinesOf(conts) ==
    LET each == [i \in 1..Len(conts) |->
                    IF i = 1 THEN Trim(DropFirstTime(RawText(conts[i])))
                    ELSE Trim(RawText(conts[i]))]
    IN SelectSeq(each, LAMBDA c : c # NoText)

parseMessageRecord(lines) ==
    LET s == lines[1]
        conts == Tail(lines)
        ex == extractPhoneAndName(s)
        parts == (IF ex.contentStart # NoText THEN <<ex.contentStart>> ELSE <<>>)
                 \o contentLinesOf(conts)
        allContent == JoinWith(parts, <<" ">>)
        direction == determineDirection(s.dir, ex.phoneNumber)
    IN  \* the start line needs white space and a rest after the date
        IF ~isMessageStart(s) \/ (s.marker = "" /\ s.text = NoText) THEN Unparsed
        ELSE [ok |-> TRUE,
              messageType |-> IF s.rtype = "SMS" THEN "SMS" ELSE "INSTANT",
              direction |-> direction,
              senderNumber |-> NoText, senderName |-> NoText,
              receiverNumber |-> NoText, receiverName |-> NoText,
              phoneNumber |-> ex.phoneNumber, name |-> ex.name,
              content |-> IF allContent = NoText THEN DefaultNoContent ELSE allContent,
              timestamp |-> parseTimestamp(s.date, LastTime(conts)),
              rawLine |-> lines]

\* ------------------------------------------------------ the contact resolver
\* A session value: the store's contacts with the importer's cache, pointer and
\* counter, and the id and path of the last getOrCreateContact call.
Session(cs, nid, cache, last, created) ==
    [contacts |-> cs, nextContactId |-> nid, contactCache |-> cache,
     lastContactId |-> last, createdContacts |-> created,
     id |-> NoId, path |-> "none", phone |-> NoText]

\* getOrCreateContact, answered from the session cache
CacheHit(ses, phoneNumber) ==
    [ses EXCEPT !.id = ses.contactCache[phoneNumber], !.path = "cache",
                !.phone = phoneNumber]

\* a cache miss that creates the contact without asking the store
getOrCreateContact_noLookup(ses, phoneNumber, name) ==
    IF phoneNumber \in DOMAIN ses.contactCache
    THEN CacheHit(ses, phoneNumber)
    ELSE LET new == ses.nextContactId IN
         [ses EXCEPT
            !.contacts = PutContact(@, new,
                           [phoneNumber |-> phoneNumber, name |-> name]),
            !.nextContactId = new + 1,
            !.createdContacts = @ + 1,
            !.contactCache = PutCache(@, phoneNumber, new),
            !.lastContactId = new,
            !.id = new, !.path = "create", !.phone = phoneNumber]

getOrCreateContact(ses, phoneNumber, name) ==
    IF phoneNumber \in DOMAIN ses.contactCache
    THEN CacheHit(ses, phoneNumber)
    ELSE LET found == findContactByPhone(ses.contacts, phoneNumber) IN
         IF found # NoId
         THEN [ses EXCEPT !.contactCache = PutCache(@, phoneNumber, found),
                          !.lastContactId = found,
                          !.id = found, !.path = "store", !.phone = phoneNumber]
         ELSE LET new == ses.nextContactId IN
              [ses EXCEPT
                 !.contacts = PutContact(@, new,
                                [phoneNumber |-> phoneNumber, name |-> name]),
                 !.nextContactId = new + 1,
                 !.createdContacts = @ + 1,
                 !.contactCache = PutCache(@, phoneNumber, new),
                 !.lastContactId = new,
                 !.id = new, !.path = "create", !.phone = phoneNumber]

\* ------------------------------------------------------------ insertMessage
\* a duplicate check that also asks for a message without sender
SameKey_andUnsent(row, parsed) ==
    /\ row.messageType = parsed.messageType
    /\ row.direction = parsed.direction
    /\ row.timestamp = parsed.timestamp
    /\ row.content = parsed.content
    /\ row.senderId = NoId

\* the where clause of the duplicate check
SameKey(row, parsed) ==
    /\ row.messageType = parsed.messageType
    /\ row.direction = parsed.direction
    /\ row.timestamp = parsed.timestamp
    /\ row.content = parsed.content

\* a duplicate check that looks at the newest message only
isDuplicate_lastOnly(msgs, parsed) ==
    msgs # <<>> /\ SameKey(msgs[Len(msgs)], parsed)

\* prisma.message.findFirst({ where: the key }) found a message
isDuplicate(msgs, parsed) == \E i \in DOMAIN msgs : SameKey(msgs[i], parsed)

Row(parsed, senderId, receiverId) ==
    [messageType |-> parsed.messageType, direction |-> parsed.direction,
     senderId |-> senderId, receiverId |-> receiverId,
     timestamp |-> parsed.timestamp, content |-> parsed.content,
     rawLine |-> parsed.rawLine]

\* AdvancedLogImporter.insertMessage after the duplicate check
resolveAdvanced(ses, parsed) ==
    LET s1 == IF parsed.senderNumber # NoText
              THEN getOrCreateContact(ses, parsed.senderNumber, parsed.senderName)
              ELSE ses
        senderId == IF parsed.senderNumber # NoText THEN s1.id ELSE NoId
        s2 == IF parsed.receiverNumber # NoText
              THEN getOrCreateContact(s1, parsed.receiverNumber, parsed.receiverName)
              ELSE s1
        receiverId == IF parsed.receiverNumber # NoText THEN s2.id
                      ELSE IF parsed.direction = "TO" /\ s2.lastContactId # NoId
                           THEN s2.lastContactId
                      ELSE NoId
    IN [ses |-> s2, senderId |-> senderId, receiverId |-> receiverId]

\* a fallback to the last contact that does not ask for the direction
resolveSMSInstant_fallbackAnyDirection(ses, parsed) ==
    LET s1 == IF parsed.phoneNumber # NoText
              THEN getOrCreateContact(ses, parsed.phoneNumber, parsed.name)
              ELSE ses
    IN [ses |-> s1,
        senderId |-> IF parsed.phoneNumber # NoText /\ parsed.direction # "TO"
                     THEN s1.id ELSE NoId,
        receiverId |-> IF parsed.phoneNumber # NoText
                       THEN (IF parsed.direction = "TO" THEN s1.id ELSE NoId)
                       ELSE s1.lastContactId]

\* SMSInstantLogParser.insertMessage after the duplicate check
resolveSMSInstant(ses, parsed) ==
    LET s1 == IF parsed.phoneNumber # NoText
              THEN getOrCreateContact(ses, parsed.phoneNumber, parsed.name)
              ELSE ses
        senderId == IF parsed.phoneNumber # NoText /\ parsed.direction # "TO"
                    THEN s1.id ELSE NoId
        receiverId == IF parsed.phoneNumber # NoText
                      THEN (IF parsed.direction = "TO" THEN s1.id ELSE NoId)
                      ELSE IF parsed.direction = "TO" /\ s1.lastContactId # NoId
                           THEN s1.lastContactId
                      ELSE NoId
    IN [ses |-> s1, senderId |-> senderId, receiverId |-> receiverId]

resolveFor(imp, ses, parsed) ==
    IF imp = "advanced" THEN resolveAdvanced(ses, parsed)
    ELSE resolveSMSInstant(ses, parsed)

ParsedPhone(parsed) ==
    IF parsed.phoneNumber # NoText THEN parsed.phoneNumber
    ELSE IF parsed.senderNumber # NoText THEN parsed.senderNumber
    ELSE parsed.receiverNumber

NoIns ==
    [acted |-> FALSE, dup |-> FALSE, msg |-> NoId, resolved |-> NoId,
     path |-> "none", phone |-> NoText, direction |-> "", hasPhone |-> FALSE]

\* ------------------------------------------------------------ the import run
ZeroStats ==
    [totalLines |-> 0, processedRecords |-> 0, createdContacts |-> 0,
     createdMessages |-> 0, errors |-> 0, skippedLines |-> 0]

IdlePass == [name |-> "none"]

NameAl == <<"A", "l">>
TextHi == <<"h", "i">>
TextOk == <<"o", "k">>

\* The lines an input file is made of, in the format the importer reads
\* (SMSInstantLogParser: records numbered by the export).  Each set holds a
\* start line the importer recognises and its parser rejects.
Shapes(imp) ==
    LET hasId == imp = "smsinstant" IN
    { BlankLine,
      StartLine(hasId, "SMS", "From", 1, "From:", PhoneLocal, NoText, NoText),
      StartLine(hasId, "SMS", "From", 1, "From:", PhoneOther, NoText, NoText),
      StartLine(hasId, "SMS", "To", 2, "To:", PhoneLocal, NameAl, NoText),
      StartLine(hasId, "SMS", "To", 1, "", NoText, NoText, TextHi),
      IF hasId THEN StartLine(hasId, "SMS", "To", 1, "", NoText, NoText, NoText)
               ELSE StartLine(hasId, "SMS", "", 1, "", NoText, NoText, TextHi),
      ContLine(1, TextOk) }

NoTrace == [on |-> FALSE, lines |-> <<>>, records |-> <<>>, ended |-> FALSE]

EmptyStore == [contacts |-> EmptyMap, nextContactId |-> 1, messages |-> <<>>]

\* a store left by an earlier run: one contact and one message from it
UsedStore ==
    [contacts |-> PutContact(EmptyMap, 1, [phoneNumber |-> PhoneCanon, name |-> NoText]),
     nextContactId |-> 2,
     messages |-> << [messageType |-> "SMS", direction |-> "FROM", senderId |-> 1,
                      receiverId |-> NoId, timestamp |-> parseDate(1),
                      content |-> DefaultSMS, rawLine |-> <<>>] >>]

InitStores == {EmptyStore, UsedStore}

Options == [dryRun : BOOLEAN, skipDuplicates : BOOLEAN, batchSize : 1..MaxBatch]

Init ==
    /\ store0 \in InitStores
    /\ contacts = store0.contacts
    /\ nextContactId = store0.nextContactId
    /\ messages = store0.messages
    /\ importer \in {"advanced", "smsinstant"}
    /\ options \in Options
    /\ options.dryRun => options.skipDuplicates /\ messages # <<>>
    /\ pc = "read"
    /\ linesRead = 0
    /\ currentRecord = <<>>
    /\ recordType = ""
    /\ isProcessingMessage = FALSE
    /\ batch = <<>>
    /\ contactCache = EmptyMap
    /\ lastContactId = NoId
    /\ stats = ZeroStats
    /\ handed = <<>>
    /\ lastIns = NoIns
    /\ prevIns = NoIns
    /\ trace = NoTrace
    /\ pass = IdlePass

\* Is the line the start of a record, for the importer that reads it?
isStartFor(imp, line) ==
    IF imp = "advanced" THEN isRecordStart(line) ELSE isMessageStart(line)

\* Is there an accumulated record to give to the parser?
emits(imp, lines, rt) ==
    IF imp = "advanced" THEN lines # <<>> /\ rt # "" ELSE lines # <<>>

\* The record being assembled is complete: parse it.
parseFor(imp, lines, rt) ==
    IF ~emits(imp, lines, rt) THEN Unparsed
    ELSE IF imp = "advanced" THEN processRecord(lines, rt)
    ELSE parseMessageRecord(lines)

\* a loop that forgets the continuation lines
accumulate_dropsContinuation(imp, lines, processing, line) == lines

\* a loop that also keeps the lines met before the first record
accumulate_beforeStart(imp, lines, processing, line) == Append(lines, line)

\* the non-start, non-blank line joins the record being accumulated
accumulate(imp, lines, processing, line) ==
    IF imp = "advanced" \/ processing THEN Append(lines, line) ELSE lines

\* a buffer that is flushed one message late
batchFull_late(b, size) == Len(b) > size

\* if (batch.length >= batchSize)
batchFull(b, size) == Len(b) >= size

\* a line that is empty after trim(): skipped
isEmptyLine_never(line) == FALSE

isEmptyLine(line) == line.blank

\* One turn of the for-await loop over the lines of the file.
ReadLine(line) ==
    /\ pc = "read"
    /\ linesRead < MaxLines
    /\ linesRead' = linesRead + 1
    /\ LET empty == isEmptyLine(line)
           start == isStartFor(importer, line)
           parsed == parseFor(importer, currentRecord, recordType)
           flushPrev == ~empty /\ start /\ parsed.ok
           batch1 == IF flushPrev THEN Append(batch, parsed) ELSE batch
           skipped == \/ empty
                      \/ importer = "smsinstant" /\ ~start /\ ~isProcessingMessage
       IN /\ stats' = [stats EXCEPT
                         !.totalLines = @ + 1,
                         !.skippedLines = IF skipped THEN @ + 1 ELSE @,
                         !.processedRecords = IF flushPrev THEN @ + 1 ELSE @]
          /\ batch' = batch1
          /\ handed' = IF flushPrev THEN Append(handed, parsed) ELSE handed
          /\ pc' = IF flushPrev /\ batchFull(batch1, options.batchSize)
                   THEN "flush" ELSE "read"
          /\ currentRecord' =
                IF empty THEN currentRecord
                ELSE IF start THEN <<line>>
                ELSE accumulate(importer, currentRecord, isProcessingMessage, line)
          /\ recordType' =
                IF ~empty /\ start /\ importer = "advanced"
                THEN detectRecordType(line) ELSE recordType
          /\ isProcessingMessage' =
                IF ~empty /\ start /\ importer = "smsinstant"
                THEN TRUE ELSE isProcessingMessage
          /\ trace' =
                IF ~trace.on THEN trace
                ELSE [trace EXCEPT
                        !.lines = Append(@, line),
                        !.records =
                           IF ~empty /\ start
                              /\ emits(importer, currentRecord, recordType)
                           THEN Append(@, currentRecord) ELSE @]
    /\ UNCHANGED <<contacts, nextContactId, messages, importer, options,
                   contactCache, lastContactId, store0, lastIns, prevIns, pass>>

\* End of the stream: the last record, then the remaining batch.
EndOfStream ==
    /\ pc = "read"
    /\ LET parsed == parseFor(importer, currentRecord, recordType)
           batch1 == IF parsed.ok THEN Append(batch, parsed) ELSE batch
       IN /\ batch' = batch1
          /\ handed' = IF parsed.ok THEN Append(handed, parsed) ELSE handed
          /\ stats' = [stats EXCEPT
                         !.processedRecords = IF parsed.ok THEN @ + 1 ELSE @]
          /\ pc' = IF batch1 # <<>> THEN "finalflush" ELSE "done"
    /\ currentRecord' = <<>>
    /\ trace' =
          IF ~trace.on THEN trace
          ELSE [trace EXCEPT
                  !.ended = TRUE,
                  !.records = IF emits(importer, currentRecord, recordType)
                              THEN Append(@, currentRecord) ELSE @]
    /\ UNCHANGED <<contacts, nextContactId, messages, importer, options, linesRead,
                   recordType, isProcessingMessage, contactCache, lastContactId,
                   store0, lastIns, prevIns, pass>>

AfterBatch(p) == IF p = "flush" THEN "read" ELSE "done"

\* an insert error that is not counted
countError_silent(st) == st

\* a failed insert that is counted as a created message
countError_asCreated(st) == [st EXCEPT !.createdMessages = @ + 1]

\* processBatch: catch (error) { ...; this.stats.errors++ }
countError(st) == [st EXCEPT !.errors = @ + 1]

\* a duplicate check made after the contacts were resolved
skipDuplicate_afterResolve(ses, r) == r.ses

\* if (existing) return: the session as the call found it, the contacts of
\* the record not looked at
skipDuplicate(ses, r) == ses

\* processBatch: insertMessage for the next message of the batch.
insertNext ==
    /\ pc \in {"flush", "finalflush"}
    /\ batch # <<>>
    /\ LET parsed == Head(batch)
           dup == options.skipDuplicates /\ isDuplicate(messages, parsed)
           ses == Session(contacts, nextContactId, contactCache, lastContactId,
                          stats.createdContacts)
           r == resolveFor(importer, ses, parsed)
       IN IF parsed.timestamp = InvalidDate
          THEN \* the query is rejected: caught and counted by processBatch
               /\ UNCHANGED <<contacts, nextContactId, messages, contactCache,
                              lastContactId>>
               /\ stats' = countError(stats)
               /\ lastIns' = [NoIns EXCEPT !.acted = TRUE,
                                !.direction = parsed.direction]
          ELSE IF dup
          THEN /\ contacts' = skipDuplicate(ses, r).contacts
               /\ nextContactId' = skipDuplicate(ses, r).nextContactId
               /\ contactCache' = skipDuplicate(ses, r).contactCache
               /\ lastContactId' = skipDuplicate(ses, r).lastContactId
               /\ stats' = [stats EXCEPT !.createdContacts =
                                            skipDuplicate(ses, r).createdContacts]
               /\ messages' = messages
               /\ lastIns' = [NoIns EXCEPT !.acted = TRUE, !.dup = TRUE,
                                !.direction = parsed.direction,
                                !.hasPhone = ParsedPhone(parsed) # NoText]
          ELSE /\ contacts' = r.ses.contacts
               /\ nextContactId' = r.ses.nextContactId
               /\ contactCache' = r.ses.contactCache
               /\ lastContactId' = r.ses.lastContactId
               /\ messages' = Append(messages, Row(parsed, r.senderId, r.receiverId))
               /\ stats' = [stats EXCEPT !.createdContacts = r.ses.createdContacts,
                                         !.createdMessages = @ + 1]
               /\ lastIns' = [acted |-> TRUE, dup |-> FALSE,
                              msg |-> Len(messages) + 1,
                              resolved |-> r.ses.id, path |-> r.ses.path,
                              phone |-> r.ses.phone,
                              direction |-> parsed.direction,
                              hasPhone |-> ParsedPhone(parsed) # NoText]
    /\ prevIns' = lastIns
    /\ batch' = Tail(batch)
    /\ pc' = IF Tail(batch) = <<>> THEN AfterBatch(pc) ELSE pc
    /\ UNCHANGED <<importer, options, linesRead, currentRecord, recordType,
                   isProcessingMessage, store0, handed, trace, pass>>

\* a processBatch whose dry-run branch does not return
DryRunBatch_noReturn == options.dryRun /\ insertNext

\* processBatch in dry-run mode: report and return.
DryRunBatch ==
    /\ pc \in {"flush", "finalflush"}
    /\ options.dryRun
    /\ batch' = <<>>
    /\ pc' = AfterBatch(pc)
    /\ UNCHANGED <<contacts, nextContactId, messages, importer, options, linesRead,
                   currentRecord, recordType, isProcessingMessage, contactCache,
                   lastContactId, stats, store0, handed, lastIns, prevIns, trace,
                   pass>>

\* processBatch, live
InsertMessage == ~options.dryRun /\ insertNext

Next ==
    \/ \E line \in Shapes(importer) : ReadLine(line)
    \/ EndOfStream
    \/ DryRunBatch
    \/ InsertMessage

Spec == Init /\ [][Next]_vars

\* ------------------------------------------- reading and parsing, observed
\* A dry run over a file that holds the forms of line the parsers tell apart:
\* a numbered start line with direction, phone and name; start lines without
\* a direction token, with one space or (for the parser whose start pattern
\* tells them apart) two before the date, with and without a phone;
\* continuation lines with different time tokens.
RecordShapes(imp) ==
    LET hasId == imp = "smsinstant" IN
    { BlankLine,
      StartLine(TRUE, "SMS", "From", 1, "From:", PhoneCanon, NameAl, NoText),
      StartLine(hasId, "SMS", "To", 1, "To:", PhoneLocal, NoText, NoText),
      StartLine(hasId, "Instant", "", 2, "From:", PhoneLocal, NoText, NoText),
      ContLine(1, TextOk),
      ContLine(2, TextHi) }
    \cup (IF hasId
          THEN { WideStartLine(hasId, "Instant", 2, "From:", PhoneLocal, NoText, NoText),
                 WideStartLine(hasId, "Instant", 2, "", NoText, NoText, TextHi) }
          ELSE {})

InitRecords ==
    /\ store0 = EmptyStore
    /\ contacts = store0.contacts
    /\ nextContactId = store0.nextContactId
    /\ messages = store0.messages
    /\ importer \in {"advanced", "smsinstant"}
    /\ options = [dryRun |-> TRUE, skipDuplicates |-> TRUE, batchSize |-> MaxBatch]
    /\ pc = "read"
    /\ linesRead = 0
    /\ currentRecord = <<>>
    /\ recordType = ""
    /\ isProcessingMessage = FALSE
    /\ batch = <<>>
    /\ contactCache = EmptyMap
    /\ lastContactId = NoId
    /\ stats = ZeroStats
    /\ handed = <<>>
    /\ lastIns = NoIns
    /\ prevIns = NoIns
    /\ trace = [NoTrace EXCEPT !.on = TRUE]
    /\ pass = IdlePass

NextRecords ==
    \/ \E line \in RecordShapes(importer) : ReadLine(line)
    \/ EndOfStream
    \/ DryRunBatch

SpecRecords == InitRecords /\ [][NextRecords]_vars

\* --------------------------------------------------- Calendar records
\* A live run of AdvancedLogImporter over Calendar events, with and without a
\* time of day, between SMS records that resolve a contact.
CalendarShapes ==
    { BlankLine,
      CalendarLine(1, 1, TextHi),
      CalendarLine(2, 0, TextOk),
      StartLine(FALSE, "SMS", "From", 1, "From:", PhoneLocal, NoText, NoText),
      ContLine(1, TextOk) }

InitCalendar ==
    /\ store0 \in InitStores
    /\ contacts = store0.contacts
    /\ nextContactId = store0.nextContactId
    /\ messages = store0.messages
    /\ importer = "advanced"
    /\ options \in [dryRun : {FALSE}, skipDuplicates : BOOLEAN, batchSize : 1..MaxBatch]
    /\ pc = "read"
    /\ linesRead = 0
    /\ currentRecord = <<>>
    /\ recordType = ""
    /\ isProcessingMessage = FALSE
    /\ batch = <<>>
    /\ contactCache = EmptyMap
    /\ lastContactId = NoId
    /\ stats = ZeroStats
    /\ handed = <<>>
    /\ lastIns = NoIns
    /\ prevIns = NoIns
    /\ trace = NoTrace
    /\ pass = IdlePass

NextCalendar ==
    \/ \E line \in CalendarShapes : ReadLine(line)
    \/ EndOfStream
    \/ InsertMessage

SpecCalendar == InitCalendar /\ [][NextCalendar]_vars

\* ------------------------------------------------------------------ main
\* The script started from the command line: options.logFile is the path
\* argument ("": none given; "missing": no such file; "present": a file).
InitMain ==
    /\ store0 \in InitStores
    /\ contacts = store0.contacts
    /\ nextContactId = store0.nextContactId
    /\ messages = store0.messages
    /\ importer \in {"advanced", "smsinstant"}
    /\ options \in [dryRun : {FALSE}, skipDuplicates : BOOLEAN,
                     batchSize : {MaxBatch}, logFile : {"", "missing", "present"}]
    /\ pc = "main"
    /\ linesRead = 0
    /\ currentRecord = <<>>
    /\ recordType = ""
    /\ isProcessingMessage = FALSE
    /\ batch = <<>>
    /\ contactCache = EmptyMap
    /\ lastContactId = NoId
    /\ stats = ZeroStats
    /\ handed = <<>>
    /\ lastIns = NoIns
    /\ prevIns = NoIns
    /\ trace = NoTrace
    /\ pass = IdlePass

\* a main that opens whatever path it is given
Main_noCheck ==
    /\ pc = "main"
    /\ pc' = "read"
    /\ UNCHANGED <<storeVars, importer, options, linesRead, currentRecord,
                   recordType, isProcessingMessage, batch, contactCache,
                   lastContactId, stats, obsVars, pass>>

\* main: process.exit(1) without a path or without the file, else the import
Main ==
    /\ pc = "main"
    /\ pc' = IF options.logFile = "" \/ options.logFile = "missing"
             THEN "exit1" ELSE "read"
    /\ UNCHANGED <<storeVars, importer, options, linesRead, currentRecord,
                   recordType, isProcessingMessage, batch, contactCache,
                   lastContactId, stats, obsVars, pass>>

NextMain == Main \/ NextCalendar

SpecMain == InitMain /\ [][NextMain]_vars

\* ------------------------------------------------ normalizePhoneNumbers
RECURSIVE SortedSeq(_)
SortedSeq(S) ==
    IF S = {} THEN <<>>
    ELSE LET lo == CHOOSE x \in S : \A y \in S : x <= y
         IN <<lo>> \o SortedSeq(S \ {lo})

\* duplicates[normalized].push(contact.id), for the contacts that need
\* normalization; the entries in the order the keys were first inserted
RECURSIVE groupByNormalized(_, _, _)
groupByNormalized(cs, ids, acc) ==
    IF ids = <<>> THEN acc
    ELSE LET id == Head(ids)
             normalized == normalizePhoneNumber(cs[id].phoneNumber)
             at == {k \in DOMAIN acc : acc[k].phone = normalized}
             acc1 == IF normalized = cs[id].phoneNumber THEN acc
                     ELSE IF at = {}
                          THEN Append(acc, [phone |-> normalized, ids |-> <<id>>])
                     ELSE [k \in DOMAIN acc |->
                             IF k \in at
                             THEN [acc[k] EXCEPT !.ids = Append(@, id)]
                             ELSE acc[k]]
         IN groupByNormalized(cs, Tail(ids), acc1)

\* a merge that forgets the received messages
reassignMessages_sendersOnly(msgs, from, to) ==
    [i \in DOMAIN msgs |->
        [msgs[i] EXCEPT !.senderId = IF @ = from THEN to ELSE @]]

reassignMessages(msgs, from, to) ==
    [i \in DOMAIN msgs |->
        [msgs[i] EXCEPT !.senderId = IF @ = from THEN to ELSE @,
                        !.receiverId = IF @ = from THEN to ELSE @]]

\* a merge that deletes the contacts and leaves their messages as they are
mergeInto_contactsOnly(st, mergeIds, keepId) ==
    [contacts |-> [i \in DOMAIN st.contacts \
                          {mergeIds[k] : k \in DOMAIN mergeIds} |-> st.contacts[i]],
     messages |-> st.messages]

\* merge the contacts mergeIds into keepId, one after the other
RECURSIVE mergeInto(_, _, _)
mergeInto(st, mergeIds, keepId) ==
    IF mergeIds = <<>> THEN st
    ELSE mergeInto([contacts |-> DropContact(st.contacts, Head(mergeIds)),
                    messages |-> reassignMessages(st.messages, Head(mergeIds), keepId)],
                   Tail(mergeIds), keepId)

\* contact.update({ id }, { phoneNumber }) violates the unique column
phoneTaken(cs, id, phoneNumber) ==
    \E i \in DOMAIN cs : i # id /\ cs[i].phoneNumber = phoneNumber

NormPhones == {PhoneLocal, PhoneSpaced, PhoneCanon, PhoneOtherLocal, PhoneOther}

\* what a message may reference: nothing, a sender, or a receiver (the pass
\* never reads a message id, so the stores list their messages in this order)
NormRefs(n) ==
    <<<<NoId, NoId>>>> \o [c \in 1..n |-> <<c, NoId>>] \o [c \in 1..n |-> <<NoId, c>>]

PassRow(direction, senderId, receiverId, timestamp, content) ==
    [messageType |-> "SMS", direction |-> direction,
     senderId |-> senderId, receiverId |-> receiverId,
     timestamp |-> timestamp, content |-> content, rawLine |-> <<>>]

IdleSession ==
    /\ importer = "none"
    /\ options = [dryRun |-> FALSE, skipDuplicates |-> TRUE, batchSize |-> 1]
    /\ pc = "idle"
    /\ linesRead = 0
    /\ currentRecord = <<>>
    /\ recordType = ""
    /\ isProcessingMessage = FALSE
    /\ batch = <<>>
    /\ contactCache = EmptyMap
    /\ lastContactId = NoId
    /\ stats = ZeroStats
    /\ handed = <<>>
    /\ lastIns = NoIns
    /\ prevIns = NoIns
    /\ trace = NoTrace

InitNormalize ==
    /\ \E n \in 1..MaxNormContacts :
       \E ph \in [1..n -> NormPhones] :
       \E k \in 0..MaxNormMsgs :
       \E pick \in [1..k -> 1..(2 * n + 1)] :
       LET refs == [m \in 1..k |-> NormRefs(n)[pick[m]]] IN
          /\ \A i, j \in 1..n : ph[i] = ph[j] => i = j
          /\ \A i, j \in 1..k : i < j => pick[i] <= pick[j]
          /\ store0 = [contacts |-> [i \in 1..n |->
                                       [phoneNumber |-> ph[i], name |-> NoText]],
                       nextContactId |-> n + 1,
                       messages |-> [m \in 1..k |->
                          PassRow(IF refs[m][1] # NoId THEN "FROM"
                                  ELSE IF refs[m][2] # NoId THEN "TO"
                                  ELSE "UNKNOWN",
                                  refs[m][1], refs[m][2], parseDate(1),
                                  DefaultSMS)]]
    /\ contacts = store0.contacts
    /\ nextContactId = store0.nextContactId
    /\ messages = store0.messages
    /\ IdleSession
    /\ pass = [name |-> "normalize", pc |-> "start", run |-> 1, queue |-> <<>>,
               updatedCount |-> 0, duplicateCount |-> 0]

\* findMany, then the grouping loop
NormalizeGroup ==
    /\ pass.name = "normalize" /\ pass.pc = "start"
    /\ LET queue == groupByNormalized(contacts, SortedSeq(DOMAIN contacts), <<>>)
       IN pass' = [pass EXCEPT !.queue = queue,
                               !.pc = IF queue = <<>> THEN "done" ELSE "loop"]
    /\ UNCHANGED <<storeVars, sessionVars, obsVars>>

\* one entry of Object.entries(duplicates)
NormalizeEntry ==
    /\ pass.name = "normalize" /\ pass.pc = "loop"
    /\ LET e == Head(pass.queue)
           keepId == e.ids[1]
           merged == mergeInto([contacts |-> contacts, messages |-> messages],
                               Tail(e.ids), keepId)
           existing == findContactByPhone(contacts, e.phone)
           next == IF Tail(pass.queue) = <<>> THEN "done" ELSE "loop"
       IN IF Len(e.ids) > 1
          THEN /\ messages' = merged.messages
               /\ IF phoneTaken(merged.contacts, keepId, e.phone)
                  THEN /\ contacts' = merged.contacts
                       /\ pass' = [pass EXCEPT
                                     !.duplicateCount = @ + Len(e.ids) - 1,
                                     !.pc = "aborted"]
                  ELSE /\ contacts' = [merged.contacts EXCEPT
                                         ![keepId].phoneNumber = e.phone]
                       /\ pass' = [pass EXCEPT
                                     !.duplicateCount = @ + Len(e.ids) - 1,
                                     !.updatedCount = @ + 1,
                                     !.queue = Tail(@), !.pc = next]
          ELSE IF existing # NoId
          THEN /\ messages' = reassignMessages(messages, keepId, existing)
               /\ contacts' = DropContact(contacts, keepId)
               /\ pass' = [pass EXCEPT !.duplicateCount = @ + 1,
                                       !.queue = Tail(@), !.pc = next]
          ELSE /\ messages' = messages
               /\ contacts' = [contacts EXCEPT ![keepId].phoneNumber = e.phone]
               /\ pass' = [pass EXCEPT !.updatedCount = @ + 1,
                                       !.queue = Tail(@), !.pc = next]
    /\ UNCHANGED <<nextContactId, sessionVars, obsVars>>

\* the script is run a second time, whichever way the first run ended
NormalizeAgain ==
    /\ pass.name = "normalize" /\ pass.run = 1
    /\ pass.pc \in {"done", "aborted"}
    /\ pass' = [pass EXCEPT !.run = 2, !.pc = "start", !.queue = <<>>,
                            !.updatedCount = 0, !.duplicateCount = 0]
    /\ UNCHANGED <<storeVars, sessionVars, obsVars>>

NextNormalize == NormalizeGroup \/ NormalizeEntry \/ NormalizeAgain

SpecNormalize == InitNormalize /\ [][NextNormalize]_vars

\* ------------------------------------------- fixToMessagesWithoutReceiver
\* a list without orderBy: any listed message may come next
firstByTimestamp_anyOrder(msgs, S) == S

\* orderBy: { timestamp: 'asc' }: the listed messages that may come next, the
\* order among equal timestamps being the database's choice
firstByTimestamp(msgs, S) ==
    {m \in S : \A k \in S : msgs[m].timestamp <= msgs[k].timestamp}

\* every TO message is taken up again, whether it has a receiver or not
toMessagesWithoutReceiver_everyTo(msgs) ==
    {m \in DOMAIN msgs : msgs[m].direction = "TO"}

\* where: { direction: 'TO', receiverId: null }
toMessagesWithoutReceiver(msgs) ==
    {m \in DOMAIN msgs : msgs[m].direction = "TO" /\ msgs[m].receiverId = NoId}

\* any earlier message with a sender, not the latest one
previousMessage_anyEarlier(msgs, timestamp) ==
    {n \in DOMAIN msgs : msgs[n].timestamp < timestamp /\ msgs[n].senderId # NoId}

\* findFirst({ timestamp: { lt }, senderId: { not: null } }, orderBy timestamp
\* desc): the rows the query may return (several when the latest timestamp is
\* shared), none when the set is empty
previousMessage(msgs, timestamp) ==
    LET earlier == {n \in DOMAIN msgs :
                      msgs[n].timestamp < timestamp /\ msgs[n].senderId # NoId}
    IN {n \in earlier : \A k \in earlier : msgs[k].timestamp <= msgs[n].timestamp}

PassContacts ==
    <<[phoneNumber |-> PhoneCanon, name |-> NoText],
      [phoneNumber |-> PhoneOther, name |-> NoText]>>

\* the messages a store may hold before the pass: received ones, sent ones
\* with and without receiver, and rows edited by hand (a sent one that carries
\* a sender, a received one without)
BackfillKinds ==
    {<<"FROM", 1, NoId>>, <<"FROM", 2, NoId>>, <<"FROM", NoId, NoId>>,
     <<"TO", NoId, NoId>>, <<"TO", NoId, 1>>, <<"TO", 2, NoId>>}

\* faults: how many of the pass's updates the database will still reject
InitBackfillWith(faults) ==
    /\ \E k \in 0..MaxPassMsgs :
       \E kind \in [1..k -> BackfillKinds] :
       \E ts \in [1..k -> 1..MaxTs] :
          /\ \A i, j \in 1..k : i < j => ts[i] <= ts[j]
          /\ store0 = [contacts |-> PassContacts,
                       nextContactId |-> 3,
                       messages |-> [m \in 1..k |->
                                       PassRow(kind[m][1], kind[m][2], kind[m][3],
                                               ts[m], DefaultSMS)]]
    /\ contacts = store0.contacts
    /\ nextContactId = store0.nextContactId
    /\ messages = store0.messages
    /\ IdleSession
    /\ pass = [name |-> "backfill", pc |-> "start", run |-> 1, queue |-> {},
               total |-> 0, fixedCount |-> 0, skippedCount |-> 0,
               before |-> <<>>, fixedBefore |-> 0, faults |-> faults]

InitBackfill == InitBackfillWith(0)

\* the findMany that lists the messages to fix
BackfillFind ==
    /\ pass.name = "backfill" /\ pass.pc = "start"
    /\ LET queue == toMessagesWithoutReceiver(messages)
       IN pass' = [pass EXCEPT !.queue = queue, !.total = Cardinality(queue),
                               !.pc = IF queue = {} THEN "done" ELSE "loop"]
    /\ UNCHANGED <<storeVars, sessionVars, obsVars>>

\* one iteration of the loop over the listed messages
BackfillMessage ==
    /\ pass.name = "backfill" /\ pass.pc = "loop"
    /\ \E id \in firstByTimestamp(messages, pass.queue) :
       LET found == previousMessage(messages, messages[id].timestamp)
           next == IF pass.queue = {id} THEN "done" ELSE "loop"
       IN IF found = {}
          THEN /\ messages' = messages
               /\ pass' = [pass EXCEPT !.skippedCount = @ + 1,
                                       !.queue = @ \ {id}, !.pc = next]
          ELSE \E n \in found :
               /\ messages' = [messages EXCEPT
                                 ![id].receiverId = messages[n].senderId]
               /\ pass' = [pass EXCEPT !.fixedCount = @ + 1,
                                       !.queue = @ \ {id}, !.pc = next]
    /\ UNCHANGED <<contacts, nextContactId, sessionVars, obsVars>>

\* the script is run a second time
BackfillAgain ==
    /\ pass.name = "backfill" /\ pass.pc = "done" /\ pass.run = 1
    /\ pass' = [pass EXCEPT !.run = 2, !.pc = "start", !.queue = {},
                            !.total = 0, !.fixedCount = 0, !.skippedCount = 0,
                            !.before = messages, !.fixedBefore = pass.fixedCount]
    /\ UNCHANGED <<storeVars, sessionVars, obsVars>>

NextBackfill == BackfillFind \/ BackfillMessage \/ BackfillAgain

SpecBackfill == InitBackfill /\ [][NextBackfill]_vars

\* The pass on a database that rejects an update (the row or the contact is
\* gone, the connection fails): prisma.message.update throws inside the try
\* of the loop body and the catch counts the message.
InitBackfillFaulty == InitBackfillWith(MaxFaults)

BackfillUpdateFails ==
    /\ pass.name = "backfill" /\ pass.pc = "loop" /\ pass.faults > 0
    /\ \E id \in firstByTimestamp(messages, pass.queue) :
          /\ previousMessage(messages, messages[id].timestamp) # {}
          /\ pass' = [pass EXCEPT !.skippedCount = @ + 1, !.faults = @ - 1,
                                  !.queue = @ \ {id},
                                  !.pc = IF pass.queue = {id} THEN "done" ELSE "loop"]
    /\ UNCHANGED <<storeVars, sessionVars, obsVars>>

NextBackfillFaulty == NextBackfill \/ BackfillUpdateFails

SpecBackfillFaulty == InitBackfillFaulty /\ [][NextBackfillFaulty]_vars

\* ------------------------------------------------- fixPhoneOwnerMessages
ShortLength == 50

phoneOwnerPatterns ==
    {<<"o", "k">>, <<"y", "e", "s">>, <<"n", "o">>,
     <<"t", "h", "a", "n", "k", "s">>,
     <<"t", "h", "a", "n", "k", " ", "y", "o", "u">>,
     <<"s", "o", "r", "r", "y">>, <<"h", "i">>, <<"h", "e", "l", "l", "o">>,
     <<"h", "o", "w", " ", "a", "r", "e", " ", "y", "o", "u">>,
     <<"w", "h", "a", "t">>, <<"w", "h", "e", "n">>,
     <<"w", "h", "e", "r", "e">>, <<"w", "h", "y">>,
     <<"c", "a", "n", " ", "y", "o", "u">>,
     <<"w", "i", "l", "l", " ", "y", "o", "u">>,
     <<"p", "l", "e", "a", "s", "e">>, <<"p", "l", "s">>,
     <<"o", "k", "a", "y">>, <<"s", "u", "r", "e">>, <<"f", "i", "n", "e">>,
     <<"g", "o", "o", "d">>, <<"b", "a", "d">>, <<"g", "r", "e", "a", "t">>,
     <<"m", "e", "e", "t">>, <<"c", "a", "l", "l">>, <<"c", "o", "m", "e">>,
     <<"g", "o">>, <<"s", "e", "e">>, <<"t", "a", "l", "k">>,
     <<"s", "p", "e", "a", "k">>}

\* /^(ok|yes|no|thanks?|sorry|hi|hello)$/i
ResponseWords ==
    {<<"o", "k">>, <<"y", "e", "s">>, <<"n", "o">>, <<"t", "h", "a", "n", "k">>,
     <<"t", "h", "a", "n", "k", "s">>, <<"s", "o", "r", "r", "y">>, <<"h", "i">>, <<"h", "e", "l", "l", "o">>}

\* String.prototype.toLowerCase, on the letters the stored texts use
toLowerCase(text) ==
    [i \in DOMAIN text |->
        CASE text[i] = "O" -> "o"
          [] text[i] = "K" -> "k"
          [] text[i] = "H" -> "h"
          [] text[i] = "M" -> "m"
          [] OTHER -> text[i]]

\* only the length rule
isPhoneOwnerResponse_shortOnly(text) == Len(text) < ShortLength

isPhoneOwnerResponse(text) ==
    LET content == toLowerCase(text)
    IN \/ \E pattern \in phoneOwnerPatterns : Includes(content, pattern)
       \/ Len(text) < ShortLength
       \/ Includes(content, <<"?">>)
       \/ content \in ResponseWords

\* where: { direction: 'FROM', content: { not: null } }
potentialPhoneOwnerMessages(msgs) ==
    {m \in DOMAIN msgs : msgs[m].direction = "FROM" /\ msgs[m].content # NullText}

TextShort == <<"H", "m">>
TextLong == [i \in 1..ShortLength |-> "x"]
TextLongPattern == TextLong \o <<"O", "K">>
TextLongQuestion == TextLong \o <<"?">>

\* isPhoneOwnerResponse of each text the stores hold, evaluated once
isPhoneOwnerResponseOf ==
    [text \in {TextShort, TextLong, TextLongPattern, TextLongQuestion} |->
        isPhoneOwnerResponse(text)]

\* the messages a store may hold before the pass (no query of the pass orders
\* by message id, so the stores list their messages by timestamp and kind)
OwnerKinds ==
    <<<<"FROM", 1, NoId, TextShort>>, <<"FROM", 1, NoId, TextLong>>,
      <<"FROM", 1, NoId, TextLongPattern>>, <<"FROM", 1, NoId, TextLongQuestion>>,
      <<"FROM", 1, NoId, NoText>>, <<"FROM", 1, NoId, NullText>>,
      <<"FROM", 2, NoId, TextShort>>,
      <<"TO", NoId, 1, TextShort>>>>

InitOwner ==
    /\ \E k \in 0..MaxPassMsgs :
       \E pick \in [1..k -> DOMAIN OwnerKinds] :
       \E ts \in [1..k -> 1..MaxTs] :
       LET kind == [m \in 1..k |-> OwnerKinds[pick[m]]] IN
          /\ \A i, j \in 1..k : i < j =>
                ts[i] < ts[j] \/ (ts[i] = ts[j] /\ pick[i] <= pick[j])
          /\ store0 = [contacts |-> PassContacts,
                       nextContactId |-> 3,
                       messages |-> [m \in 1..k |->
                                       PassRow(kind[m][1], kind[m][2], kind[m][3],
                                               ts[m], kind[m][4])]]
    /\ contacts = store0.contacts
    /\ nextContactId = store0.nextContactId
    /\ messages = store0.messages
    /\ IdleSession
    /\ pass = [name |-> "owner", pc |-> "start", run |-> 1, queue |-> {},
               fixedCount |-> 0, skippedCount |-> 0, analyzedCount |-> 0,
               fixedBefore |-> 0]

\* an update that leaves the direction as it was
reclassify_keepsDirection(msgs, id, senderId) ==
    [msgs EXCEPT ![id].receiverId = senderId, ![id].senderId = NoId]

\* message.update: direction 'TO', receiverId: previousMessage.sender.id,
\* senderId: null
reclassify(msgs, id, senderId) ==
    [msgs EXCEPT ![id].direction = "TO",
                 ![id].receiverId = senderId,
                 ![id].senderId = NoId]

\* the findMany that lists the messages to analyze
OwnerFind ==
    /\ pass.name = "owner" /\ pass.pc = "start"
    /\ LET queue == potentialPhoneOwnerMessages(messages)
       IN pass' = [pass EXCEPT !.queue = queue,
                               !.pc = IF queue = {} THEN "done" ELSE "loop"]
    /\ UNCHANGED <<storeVars, sessionVars, obsVars>>

\* one iteration of the loop over the listed messages
OwnerMessage ==
    /\ pass.name = "owner" /\ pass.pc = "loop"
    /\ \E id \in firstByTimestamp(messages, pass.queue) :
       LET message == messages[id]
           found == previousMessage(messages, message.timestamp)
           next == IF pass.queue = {id} THEN "done" ELSE "loop"
           step == [pass EXCEPT !.analyzedCount = @ + 1,
                                !.queue = @ \ {id}, !.pc = next]
       IN IF message.content = NoText \/ ~isPhoneOwnerResponseOf[message.content]
          THEN /\ messages' = messages
               /\ pass' = step
          ELSE IF found = {}
          THEN /\ messages' = messages
               /\ pass' = [step EXCEPT !.skippedCount = @ + 1]
          ELSE \E n \in found :
               /\ messages' = reclassify(messages, id, messages[n].senderId)
               /\ pass' = [step EXCEPT !.fixedCount = @ + 1]
    /\ UNCHANGED <<contacts, nextContactId, sessionVars, obsVars>>

\* the script is run a second time
OwnerAgain ==
    /\ pass.name = "owner" /\ pass.pc = "done" /\ pass.run = 1
    /\ pass' = [pass EXCEPT !.run = 2, !.pc = "start", !.queue = {},
                            !.fixedCount = 0, !.skippedCount = 0,
                            !.analyzedCount = 0, !.fixedBefore = pass.fixedCount]
    /\ UNCHANGED <<storeVars, sessionVars, obsVars>>

NextOwner == OwnerFind \/ OwnerMessage \/ OwnerAgain

SpecOwner == InitOwner /\ [][NextOwner]_vars

\* ------------------------------------------- normalizePhoneNumber, applied
InsertAt(text, k, c) ==
    SubSeq(text, 1, k) \o <<c>> \o SubSeq(text, k + 1, Len(text))

\* the strings given to normalizePhoneNumber: a prefix, up to maxDigits digits,
\* and possibly one formatting character or letter in front, inside or behind
PhoneInputs(maxDigits) ==
    LET prefixes == {<<>>, <<"+">>, Plus960, <<"9", "6", "0">>,
                     <<"+", "9", "6">>, <<"9", "6">>}
        plain == UNION {{p \o b : p \in prefixes, b \in [1..n -> {"7", "1"}]} :
                          n \in 0..maxDigits}
    IN plain \cup UNION {{InsertAt(t, k, c) :
                             k \in {0, 3, maxDigits} \cap (0..Len(t)),
                             c \in Blanks \cup {"x"}} : t \in plain}

InitPhone ==
    /\ store0 = EmptyStore
    /\ contacts = store0.contacts
    /\ nextContactId = store0.nextContactId
    /\ messages = store0.messages
    /\ IdleSession
    /\ \E phoneNumber \in PhoneInputs(MaxDigits) :
          pass = [name |-> "phone", input |-> phoneNumber, values |-> <<>>]

\* normalizePhoneNumber on the input, then on its own result
ApplyNormalize ==
    /\ pass.name = "phone" /\ Len(pass.values) < 2
    /\ pass' = [pass EXCEPT !.values =
                  Append(@, normalizePhoneNumber(
                               IF @ = <<>> THEN pass.input ELSE @[Len(@)]))]
    /\ UNCHANGED <<storeVars, sessionVars, obsVars>>

NextPhone == ApplyNormalize

SpecPhone == InitPhone /\ [][NextPhone]_vars

\* ------------------------------------------------ one import run after another
MaxRuns == 2         \* import runs in a row on one store

\* a received record from the number UsedStore holds, and with it
\* a record that differs from it in the sender only and a sent record without
\* phone number (AdvancedLogImporter), or a record without direction and
\* phone number and a record sent to another number (SMSInstantLogParser)
RunShapes(imp) ==
    LET hasId == imp = "smsinstant" IN
    { StartLine(hasId, "SMS", "From", 2, "From:", PhoneCanon, NoText, NoText) }
    \cup (IF hasId
          THEN { WideStartLine(TRUE, "SMS", 1, "", NoText, NoText, TextHi),
                 StartLine(TRUE, "SMS", "To", 1, "To:", PhoneOther,
                           NoText, NoText) }
          ELSE { StartLine(FALSE, "SMS", "From", 2, "From:", PhoneOther,
                           NoText, NoText),
                 StartLine(FALSE, "SMS", "To", 1, "", NoText, NoText, TextHi) })

\* live runs with --skip-duplicates
InitRuns ==
    /\ store0 \in InitStores
    /\ contacts = store0.contacts
    /\ nextContactId = store0.nextContactId
    /\ messages = store0.messages
    /\ importer \in {"advanced", "smsinstant"}
    /\ options = [dryRun |-> FALSE, skipDuplicates |-> TRUE, batchSize |-> MaxBatch]
    /\ pc = "read"
    /\ linesRead = 0
    /\ currentRecord = <<>>
    /\ recordType = ""
    /\ isProcessingMessage = FALSE
    /\ batch = <<>>
    /\ contactCache = EmptyMap
    /\ lastContactId = NoId
    /\ stats = ZeroStats
    /\ handed = <<>>
    /\ lastIns = NoIns
    /\ prevIns = NoIns
    /\ trace = NoTrace
    /\ pass = [name |-> "runs", run |-> 1, had |-> DOMAIN store0.contacts]

\* the same script is started again on the store the last run left: a new importer
\* object with an empty cache, no last contact and zeroed statistics; pass.had
\* remembers the ids of the contacts the store held when the run began
StartRun ==
    /\ pass.name = "runs" /\ pass.run < MaxRuns
    /\ pc = "done"
    /\ pass' = [pass EXCEPT !.run = @ + 1, !.had = DOMAIN contacts]
    /\ importer' = importer
    /\ pc' = "read"
    /\ linesRead' = 0
    /\ currentRecord' = <<>>
    /\ recordType' = ""
    /\ isProcessingMessage' = FALSE
    /\ batch' = <<>>
    /\ contactCache' = EmptyMap
    /\ lastContactId' = NoId
    /\ stats' = ZeroStats
    /\ handed' = <<>>
    /\ lastIns' = NoIns
    /\ prevIns' = NoIns
    /\ UNCHANGED <<storeVars, options, store0, trace>>

NextRuns ==
    \/ \E line \in RunShapes(importer) : ReadLine(line)
    \/ EndOfStream
    \/ InsertMessage
    \/ StartRun

SpecRuns == InitRuns /\ [][NextRuns]_vars

\* ------------------------------------------- the routes that edit the store
MaxCorrMsgs == 2     \* messages of a store the corrections run on

\* a message row with the column the merge route also rewrites
ApiRow(direction, senderId, receiverId, correctedReceiverId, timestamp, content) ==
    [messageType |-> "SMS", direction |-> direction,
     senderId |-> senderId, receiverId |-> receiverId,
     correctedReceiverId |-> correctedReceiverId,
     timestamp |-> timestamp, content |-> content, rawLine |-> <<>>]

\* three contacts with one normalized phone number and their category links
ApiContacts ==
    <<[phoneNumber |-> PhoneLocal, name |-> NoText, categories |-> {1}],
      [phoneNumber |-> PhoneCanon, name |-> NameAl, categories |-> {1, 2}],
      [phoneNumber |-> PhoneSpaced, name |-> NoText, categories |-> {}]>>

\* direction, senderId, receiverId, correctedReceiverId of the stored messages
ApiKinds ==
    {<<"FROM", 1, NoId, NoId>>, <<"FROM", 2, NoId, NoId>>,
     <<"FROM", 3, NoId, NoId>>,
     <<"TO", NoId, NoId, NoId>>, <<"TO", NoId, 2, 1>>}

IdleApi ==
    [name |-> "api", pc |-> "idle", op |-> "", status |-> 0,
     source |-> NoId, target |-> NoId, id |-> NoId]

\* the stores the corrections run on, and which correction runs
InitCorrections ==
    /\ \E k \in 0..MaxCorrMsgs :
       \E kind \in [1..k -> ApiKinds] :
       \E ts \in [1..k -> 1..2] :
       \E text \in [1..k -> {TextShort, TextLong}] :
          /\ \A i, j \in 1..k : i < j => ts[i] <= ts[j]
          /\ store0 = [contacts |-> ApiContacts,
                       nextContactId |-> 4,
                       messages |-> [m \in 1..k |->
                                       ApiRow(kind[m][1], kind[m][2], kind[m][3],
                                              kind[m][4], ts[m], text[m])]]
    /\ contacts = store0.contacts
    /\ nextContactId = store0.nextContactId
    /\ messages = store0.messages
    /\ IdleSession
    /\ pass \in {IdleApi,
                 [name |-> "backfill", pc |-> "start", run |-> 1, queue |-> {},
                  total |-> 0, fixedCount |-> 0, skippedCount |-> 0,
                  before |-> <<>>, fixedBefore |-> 0, faults |-> 0],
                 [name |-> "owner", pc |-> "start", run |-> 1, queue |-> {},
                  fixedCount |-> 0, skippedCount |-> 0, analyzedCount |-> 0,
                  fixedBefore |-> 0],
                 [name |-> "normalize", pc |-> "start", run |-> 1,
                  queue |-> <<>>, updatedCount |-> 0, duplicateCount |-> 0]}

\* a merge that reassigns the messages and forgets to delete the source
mergeContacts_keepsSource(st, source, target) ==
    [contacts |-> st.contacts,
     messages |-> reassignMessages(st.messages, source, target)]

\* the transaction of POST /merge: the three updateMany, the category links
\* the target lacks, the delete of the source (its own links go with it)
mergeContacts(st, source, target) ==
    [contacts |->
        DropContact([st.contacts EXCEPT ![target].categories =
                        @ \cup st.contacts[source].categories], source),
     messages |->
        [i \in DOMAIN st.messages |->
            [st.messages[i] EXCEPT
                !.senderId = IF @ = source THEN target ELSE @,
                !.receiverId = IF @ = source THEN target ELSE @,
                !.correctedReceiverId = IF @ = source THEN target ELSE @]]]

\* parseInt of the two ids of a request body: a contact id, or NaN (NoId) when
\* the field is absent or no number
MergeIds == {NoId} \cup 1..4

\* POST /merge; a transaction that throws is rolled back
MergeRequest ==
    /\ pass.name = "api" /\ pass.pc = "idle"
    /\ \E source, target \in MergeIds :
       LET reply(status) == [pass EXCEPT !.pc = "replied", !.op = "merge",
                                         !.source = source, !.target = target,
                                         !.status = status]
           merged == mergeContacts([contacts |-> contacts, messages |-> messages],
                                   source, target)
       IN IF source = NoId \/ target = NoId \/ source = target
          THEN pass' = reply(400) /\ UNCHANGED <<contacts, messages>>
          ELSE IF source \notin DOMAIN contacts \/ target \notin DOMAIN contacts
          THEN pass' = reply(500) /\ UNCHANGED <<contacts, messages>>
          ELSE \/ /\ contacts' = merged.contacts
                  /\ messages' = merged.messages
                  /\ pass' = reply(200)
               \/ pass' = reply(500) /\ UNCHANGED <<contacts, messages>>
    /\ UNCHANGED <<nextContactId, sessionVars, obsVars>>

\* an update that also writes the content column
correctMessage_clearsContent(msgs, id, senderId, receiverId, direction) ==
    [msgs EXCEPT ![id].senderId = senderId, ![id].receiverId = receiverId,
                 ![id].content = NoText]

\* prisma.message.update of PUT /:id/correct: a sender or receiver id that is
\* absent or 0 is stored as null, an absent direction leaves the stored one
correctMessage(msgs, id, senderId, receiverId, direction) ==
    [msgs EXCEPT ![id].senderId = senderId,
                 ![id].receiverId = receiverId,
                 ![id].direction = IF direction = "" THEN @ ELSE direction]

\* PUT /:id/correct
CorrectRequest ==
    /\ pass.name = "api" /\ pass.pc = "idle"
    /\ \E id \in 1..(Len(messages) + 1) :
       \E senderId \in {NoId, 1} :
       \E receiverId \in {NoId, 2} :
       \E direction \in {"", "TO"} :
       LET reply(status) == [pass EXCEPT !.pc = "replied", !.op = "correct",
                                         !.id = id, !.status = status]
       IN IF id \notin DOMAIN messages
          THEN pass' = reply(404) /\ messages' = messages
          ELSE /\ messages' = correctMessage(messages, id, senderId,
                                             receiverId, direction)
               /\ pass' = reply(200)
    /\ UNCHANGED <<contacts, nextContactId, sessionVars, obsVars>>

NextApi == MergeRequest \/ CorrectRequest

NextCorrections == NextBackfill \/ NextOwner \/ NextNormalize \/ NextApi

SpecCorrections == InitCorrections /\ [][NextCorrections]_vars

\* ------------------------------------------------------ GET /search
MaxSearchMsgs == 23  \* messages of a store that is searched
\* take: 10, of the two window queries
Take == 10

\* where: { content: { contains: query, mode: 'insensitive' } }
matchingMessages(msgs, query) ==
    {m \in DOMAIN msgs :
        /\ msgs[m].content # NullText
        /\ Includes(toLowerCase(msgs[m].content), toLowerCase(query))}

\* findMany({ orderBy: { timestamp }, take: n }) over the rows S: the lists
\* the database may return, rows of one timestamp in the order it likes
RECURSIVE takeOrdered(_, _, _, _)
takeOrdered(msgs, S, n, desc) ==
    IF n = 0 \/ S = {} THEN {<<>>}
    ELSE LET first == {x \in S : \A y \in S :
                          IF desc THEN msgs[y].timestamp <= msgs[x].timestamp
                          ELSE msgs[x].timestamp <= msgs[y].timestamp}
         IN UNION {{<<c>> \o r : r \in takeOrdered(msgs, S \ {c}, n - 1, desc)} :
                     c \in first}

\* Array.prototype.reverse
reverse(list) == [i \in 1..Len(list) |-> list[Len(list) + 1 - i]]

\* the query strings of a request: absent, blank, matching, not matching
Queries == {NoText, <<" ">>, <<"H", "i">>, <<"z">>}

\* the searched stores: messages in the order of their timestamps; at most two
\* of them (a, b) hold the searched word, and at most two (tie, tie + 1) have
\* one timestamp: next to the first match, inside its window or at an edge
InitSearch ==
    /\ \E k \in 0..MaxSearchMsgs :
       \E a \in 0..k :
       \E b \in {a, a + 1, k} :
       \E tie \in 0..(k - 1) :
          /\ a = 0 => b = 0 /\ tie = 0
          /\ b <= k
          /\ tie # 0 => tie \in {a - Take - 1, a - 2, a - 1, a, a + 1, a + Take}
          /\ store0 = [contacts |-> ApiContacts,
                       nextContactId |-> 4,
                       messages |-> [m \in 1..k |->
                          ApiRow("FROM", 1, NoId, NoId,
                                 IF tie # 0 /\ m > tie THEN m - 1 ELSE m,
                                 IF m \in {a, b} THEN TextHi
                                 ELSE DefaultNoContent)]]
    /\ contacts = store0.contacts
    /\ nextContactId = store0.nextContactId
    /\ messages = store0.messages
    /\ IdleSession
    /\ pass = [name |-> "search", pc |-> "idle", query |-> NoText, status |-> 0,
               messages |-> <<>>, targetMessage |-> NoId]

\* a window query that returns every earlier and every later message
SearchRequest_noTake ==
    /\ pass.name = "search" /\ pass.pc = "idle"
    /\ \E query \in Queries \ {NoText, <<" ">>} :
       \E target \in matchingMessages(messages, query) :
          pass' = [pass EXCEPT !.pc = "replied", !.query = query, !.status = 200,
                      !.messages = [i \in 1..Len(messages) |-> i],
                      !.targetMessage = target]
    /\ UNCHANGED <<storeVars, sessionVars, obsVars>>

\* router.get('/search')
SearchRequest ==
    /\ pass.name = "search" /\ pass.pc = "idle"
    /\ \E query \in Queries :
       LET reply(status, list, target) ==
              [pass EXCEPT !.pc = "replied", !.query = query, !.status = status,
                           !.messages = list, !.targetMessage = target]
           found == matchingMessages(messages, query)
       IN IF query = NoText \/ Trim(query) = NoText
          THEN pass' = reply(400, <<>>, NoId)
          ELSE IF found = {}
          THEN pass' = reply(200, <<>>, NoId)
          ELSE \E targetMessage \in firstByTimestamp(messages, found) :
               LET ts == messages[targetMessage].timestamp
                   earlier == {m \in DOMAIN messages : messages[m].timestamp < ts}
                   later == {m \in DOMAIN messages : messages[m].timestamp > ts}
               IN \E beforeMessages \in takeOrdered(messages, earlier, Take, TRUE) :
                  \E afterMessages \in takeOrdered(messages, later, Take, FALSE) :
                     pass' = reply(200,
                                   reverse(beforeMessages) \o <<targetMessage>>
                                      \o afterMessages,
                                   targetMessage)
    /\ UNCHANGED <<storeVars, sessionVars, obsVars>>

NextSearch == SearchRequest

SpecSearch == InitSearch /\ [][NextSearch]_vars

\* ------------------------------------------------------------------ claims
Live == ~options.dryRun

\* the insertMessage call just made persisted a TO message that carried no
\* phone number, and the call before it resolved a contact
FallbackAfterResolve ==
    /\ lastIns.acted /\ ~lastIns.dup
    /\ lastIns.direction = "TO" /\ ~lastIns.hasPhone
    /\ prevIns.acted /\ prevIns.resolved # NoId

\* C1: a persisted TO record without a phone number that immediately follows a
\* record whose contact resolved to C has receiverId = C, whatever was resolved
\* (and cached) earlier in the run.
C1_FallbackIsPreviousContact ==
    FallbackAfterResolve => messages[lastIns.msg].receiverId = prevIns.resolved

\* C2: after getOrCreateContact(phone, name) returned id, contactCache[phone] = id
\* and lastContactId = id, on the cache path, the store path and the create path.
C2_ResolveUpdatesCacheAndLast ==
    (lastIns.acted /\ lastIns.resolved # NoId) =>
        /\ lastIns.phone \in DOMAIN contactCache
        /\ contactCache[lastIns.phone] = lastIns.resolved
        /\ lastContactId = lastIns.resolved

\* C3: phone strings with the same normalized form resolve to the same contact
\* id, in one run or against a store that holds a contact for one of them, and
\* at most one contact exists for them.
C3_ResolverKeysOnNormalizedPhone ==
    /\ \A i, j \in DOMAIN contacts :
          normalizePhoneNumber(contacts[i].phoneNumber)
             = normalizePhoneNumber(contacts[j].phoneNumber) => i = j
    /\ \A p, q \in DOMAIN contactCache :
          normalizePhoneNumber(p) = normalizePhoneNumber(q)
             => contactCache[p] = contactCache[q]
    /\ \A q \in DOMAIN contactCache : \A i \in DOMAIN store0.contacts :
          normalizePhoneNumber(store0.contacts[i].phoneNumber)
             = normalizePhoneNumber(q) => contactCache[q] = i

Key(row) == <<row.messageType, row.direction, row.timestamp, row.content>>

\* the run is over and its input held one well-formed record twice, no equal
\* message being in the store before
SameRecordTwice ==
    /\ pc = "done" /\ Live /\ options.skipDuplicates
    /\ Len(handed) = 2 /\ handed[1] = handed[2]
    /\ \A i \in DOMAIN store0.messages : Key(store0.messages[i]) # Key(handed[1])

\* the step is an insertMessage call that suppressed a duplicate
SuppressStep ==
    /\ pc \in {"flush", "finalflush"} /\ batch # <<>> /\ batch' = Tail(batch)
    /\ lastIns'.dup

C7_DryRunLeavesStore ==
    options.dryRun =>
        /\ contacts = store0.contacts
        /\ messages = store0.messages
        /\ nextContactId = store0.nextContactId
        /\ stats.createdMessages = 0
        /\ stats.createdContacts = 0
        /\ stats.processedRecords = Len(handed)
        /\ pc = "done" => batch = <<>>

\* a dry run that flushed a full batch in mid-file and another at the end
C7_Witness ==
    /\ options.dryRun /\ pc = "done"
    /\ stats.processedRecords = 3 /\ options.batchSize = 2
    /\ stats.totalLines > 3

\* a bare local number: seven digits, the first a 7
IsBareLocal(phoneNumber) ==
    Len(phoneNumber) = 7 /\ AllDigits(phoneNumber) /\ phoneNumber[1] = "7"

Referencing(msgs, ids) ==
    {m \in DOMAIN msgs : msgs[m].senderId \in ids \/ msgs[m].receiverId \in ids}

NormalizeDone == pass.name = "normalize" /\ pass.run = 1 /\ pass.pc = "done"

\* C4: when the store holds a contact with a bare local number and a contact
\* with its canonical +960 form, a completed normalizePhoneNumbers pass leaves
\* exactly one of the two, stored under the canonical number, and the messages
\* that reference it are exactly those that referenced either of the two before.
C4_LocalAndCanonicalCollapse ==
    NormalizeDone =>
        \A a, b \in DOMAIN store0.contacts :
            (/\ IsBareLocal(store0.contacts[a].phoneNumber)
             /\ store0.contacts[b].phoneNumber
                    = Plus960 \o store0.contacts[a].phoneNumber)
            => \E k \in {a, b} :
                 /\ {a, b} \cap DOMAIN contacts = {k}
                 /\ contacts[k].phoneNumber = store0.contacts[b].phoneNumber
                 /\ Referencing(messages, {k})
                        = Referencing(store0.messages, {a, b})

\* both contacts had a message, one as sender and one as receiver, and a
\* third contact stood by
C4_Witness ==
    /\ NormalizeDone
    /\ pass.duplicateCount = 1
    /\ \E a, b \in DOMAIN store0.contacts :
          /\ store0.contacts[a].phoneNumber = PhoneLocal
          /\ store0.contacts[b].phoneNumber = PhoneCanon
          /\ Cardinality(DOMAIN store0.contacts) > 2
          /\ \E m, n \in DOMAIN store0.messages :
                /\ store0.messages[m].receiverId = a
                /\ store0.messages[n].senderId = b
          /\ Cardinality(Referencing(messages, {b})) = 2

\* C5: after one run of normalizePhoneNumbers, whatever the contacts it started
\* from, no two contacts share a normalized number and every stored number is
\* its own normalization.
C5_AllNormalizedAndUnique ==
    (pass.name = "normalize" /\ pass.run = 1 /\ pass.pc \in {"done", "aborted"}) =>
        /\ \A i, j \in DOMAIN contacts :
              normalizePhoneNumber(contacts[i].phoneNumber)
                  = normalizePhoneNumber(contacts[j].phoneNumber) => i = j
        /\ \A i \in DOMAIN contacts :
              contacts[i].phoneNumber
                  = normalizePhoneNumber(contacts[i].phoneNumber)

BackfillDone(run) == pass.name = "backfill" /\ pass.run = run /\ pass.pc = "done"

\* the messages with a sender that are strictly earlier than message m of msgs
EarlierSenders(msgs, m) ==
    {n \in DOMAIN msgs :
        msgs[n].timestamp < msgs[m].timestamp /\ msgs[n].senderId # NoId}

\* C8: after a completed fixToMessagesWithoutReceiver, every TO message that
\* had no receiver and has a strictly earlier message with a sender carries the
\* sender of such a message of the greatest timestamp; every TO message
\* without receiver and without such an earlier message still has no receiver
\* and was counted as skipped; the pass ends normally.
C8_BackfillNearestEarlierSender ==
    BackfillDone(1) =>
        LET todo == toMessagesWithoutReceiver(store0.messages)
            orphans == {m \in todo : EarlierSenders(store0.messages, m) = {}}
        IN /\ \A m \in todo \ orphans :
                 \E n \in EarlierSenders(store0.messages, m) :
                    /\ \A k \in EarlierSenders(store0.messages, m) :
                          store0.messages[k].timestamp <= store0.messages[n].timestamp
                    /\ messages[m].receiverId = store0.messages[n].senderId
           /\ \A m \in orphans : messages[m].receiverId = NoId
           /\ pass.skippedCount = Cardinality(orphans)
           /\ pass.fixedCount = Cardinality(todo \ orphans)
           /\ pass.total = Cardinality(todo)

\* one message skipped, and one fixed that had two earlier senders to choose
\* from at different times
C8_Witness ==
    /\ BackfillDone(1)
    /\ pass.skippedCount = 1 /\ pass.fixedCount = 1
    /\ \E m \in DOMAIN messages :
          /\ store0.messages[m].receiverId = NoId /\ messages[m].receiverId = 2
          /\ \E n \in EarlierSenders(store0.messages, m) :
                store0.messages[n].senderId = 1

\* C9: a second fixToMessagesWithoutReceiver run right after a completed first
\* one changes no message and fixes none.
C9_BackfillIdempotent ==
    (pass.name = "backfill" /\ pass.run = 2) =>
        /\ messages = pass.before
        /\ pass.fixedCount = 0

\* the first run fixed a message and skipped one, the second run is over
C9_Witness ==
    /\ BackfillDone(2)
    /\ pass.fixedBefore > 0
    /\ pass.skippedCount > 0
    /\ messages # store0.messages

OwnerDone == pass.name = "owner" /\ pass.run = 1 /\ pass.pc = "done"

\* the stored texts the heuristic flags: a short one, a long one that holds a
\* pattern word, a long one that holds a question mark
FlaggedTexts == {TextShort, TextLongPattern, TextLongQuestion}

\* C10: at the end of fixPhoneOwnerMessages, every FROM message whose content
\* the heuristic flags and that has a strictly earlier message with a sender
\* has direction TO, no sender, and as receiver the sender of the nearest
\* strictly earlier message that has one; a flagged message without such an
\* earlier message, and every other message, is as it was before the pass.
C10_OwnerRepliesReclassified ==
    OwnerDone =>
        \A m \in DOMAIN store0.messages :
            IF /\ store0.messages[m].direction = "FROM"
               /\ store0.messages[m].content \in FlaggedTexts
               /\ EarlierSenders(store0.messages, m) # {}
            THEN /\ messages[m].direction = "TO"
                 /\ messages[m].senderId = NoId
                 /\ \E n \in EarlierSenders(messages, m) :
                       /\ \A k \in EarlierSenders(messages, m) :
                             messages[k].timestamp <= messages[n].timestamp
                       /\ messages[m].receiverId = messages[n].senderId
            ELSE messages[m] = store0.messages[m]

\* three flagged messages in a row: the first has nothing before it and stays,
\* the second is turned around, and the third is addressed to the sender of
\* the first because the second no longer has one
C10_Witness ==
    /\ OwnerDone
    /\ pass.fixedCount = 2 /\ pass.skippedCount = 1
    /\ Len(messages) = 3
    /\ store0.messages[2].senderId = 2
    /\ store0.messages[3].content = TextLongQuestion
    /\ messages[3].receiverId = 1
    /\ messages[1] = store0.messages[1]

OwnerSecondRun == pass.name = "owner" /\ pass.run = 2

\* C11: a second fixPhoneOwnerMessages run right after a completed first one
\* changes no message: no step of it alters the stored messages, and it
\* updates none.
C11_OwnerIdempotent ==
    /\ [][OwnerSecondRun => messages' = messages]_vars
    /\ [](OwnerSecondRun => pass.fixedCount = 0)

\* the first run turned a message around and left a flagged one that has
\* nothing before it; the second run looked at that one again and is over
C11_Witness ==
    /\ OwnerSecondRun /\ pass.pc = "done"
    /\ pass.fixedBefore > 0
    /\ pass.skippedCount > 0
    /\ pass.analyzedCount > 1

NormalizeSecondRun == pass.name = "normalize" /\ pass.run = 2

\* C12: a second normalizePhoneNumbers run right after the first one changes
\* no contact and no message, and counts no update and no merge.
C12_NormalizeIdempotent ==
    /\ [][NormalizeSecondRun => contacts' = contacts /\ messages' = messages]_vars
    /\ [](NormalizeSecondRun =>
             pass.updatedCount = 0 /\ pass.duplicateCount = 0)

HasBlank(text) == \E i \in DOMAIN text : text[i] \in Blanks

\* C13: normalizePhoneNumber applied to its own result returns that result,
\* for every input, formatted or not, recognised or not.
C13_NormalizeIdempotent ==
    (pass.name = "phone" /\ Len(pass.values) = 2) =>
        pass.values[2] = pass.values[1]

\* a formatted local number was rewritten by the first application and kept
\* by the second
C13_Witness ==
    /\ pass.name = "phone" /\ Len(pass.values) = 2
    /\ HasBlank(pass.input)
    /\ pass.values[1] = Plus960 \o <<"7", "7", "7", "1", "1", "1", "1">>

\* the rules of the normalizer, first match wins, read on the text x and
\* producing their result from the text y
RulesOf(x, y, other) ==
    IF StartsWith(x, Plus960) THEN y
    ELSE IF StartsWith(x, <<"9", "6", "0">>) THEN <<"+">> \o y
    ELSE IF Len(x) = 7 /\ AllDigits(x) /\ x[1] = "7" THEN Plus960 \o y
    ELSE IF Len(x) = 6 /\ AllDigits(x) THEN Plus960 \o <<"7">> \o y
    ELSE other

WithoutBlanks(text) == SelectSeq(text, LAMBDA c : c \notin Blanks)

NormalizedOnce == pass.name = "phone" /\ Len(pass.values) >= 1

\* C14: normalizePhoneNumber applies to its input the first matching rule of:
\* in +960 form, unchanged; starting with 960, '+' prefixed; seven digits
\* starting with 7, '+960' prefixed; six digits, '+9607' prefixed; anything
\* else, unchanged.
C14_RulesOnInput ==
    NormalizedOnce =>
        pass.values[1] = RulesOf(pass.input, pass.input, pass.input)

\* C14, amended: the rules are matched against the input with spaces, dashes
\* and parentheses removed and build their result from that cleaned text; only
\* an input that matches no rule is returned as it was given.
C14_RulesOnCleanedInput ==
    NormalizedOnce =>
        pass.values[1] = RulesOf(WithoutBlanks(pass.input),
                                 WithoutBlanks(pass.input), pass.input)

\* a six-digit text that starts with 960 and holds a dash: the 960 rule wins
\* and the dash is gone
C14_Witness ==
    /\ NormalizedOnce
    /\ pass.input = <<"9", "6", "0", "-", "7", "1", "1">>
    /\ pass.values[1] = <<"+", "9", "6", "0", "7", "1", "1">>

\* The lines of the file read so far that start a record, by position.
StartsAt(i) == ~trace.lines[i].blank /\ isStartFor(importer, trace.lines[i])

StartIndexes == SortedSeq({i \in 1..Len(trace.lines) : StartsAt(i)})

\* The start line at position i with the non-empty lines that follow it up to
\* the next start line or the end of what was read.
RecordAt(i) ==
    LET later == {j \in (i + 1)..Len(trace.lines) : StartsAt(j)}
        stop == IF later = {} THEN Len(trace.lines) + 1
                ELSE CHOOSE j \in later : \A k \in later : j <= k
    IN <<trace.lines[i]>>
       \o SelectSeq(SubSeq(trace.lines, i + 1, stop - 1), LAMBDA l : ~l.blank)

ExpectedRecords == [k \in 1..Len(StartIndexes) |-> RecordAt(StartIndexes[k])]

\* C15: the reassembler gives the parser one record per record-start line, in
\* file order, each made of its start line and the non-empty lines up to the
\* next start line; while the file is being read the record of the last start
\* line is still being accumulated, and at the end of the stream it is given
\* to the parser too.
C15_OneRecordPerStartLine ==
    trace.on =>
       /\ trace.ended => trace.records = ExpectedRecords
       /\ ~trace.ended =>
             /\ Len(trace.records) = IF StartIndexes = <<>> THEN 0
                                     ELSE Len(StartIndexes) - 1
             /\ \A k \in 1..Len(trace.records) : trace.records[k] = ExpectedRecords[k]
             /\ StartIndexes # <<>> =>
                   currentRecord = ExpectedRecords[Len(StartIndexes)]

C15_Witness ==
    /\ trace.on /\ trace.ended
    /\ Len(trace.records) = 2
    /\ Len(trace.records[1]) = 2
    /\ Len(trace.lines) = 4
    /\ trace.lines[1].blank

\* the step reads an empty (or white-space only) line
EmptyLineRead ==
    /\ trace.on
    /\ Len(trace'.lines) = Len(trace.lines) + 1
    /\ trace'.lines[Len(trace'.lines)].blank

\* position i starts a record whose continuation lines at i + 1 and i + 3 have
\* an empty line between them
AroundEmptyLine(i) ==
    /\ StartsAt(i)
    /\ ~trace.lines[i + 1].blank /\ ~StartsAt(i + 1)
    /\ trace.lines[i + 2].blank
    /\ ~trace.lines[i + 3].blank /\ ~StartsAt(i + 3)

\* C16: reading an empty line adds one to totalLines and one to skippedLines
\* and changes neither the record being accumulated, nor the state of the
\* reassembler, nor the batch, and gives nothing to the parser; continuation
\* lines before and after an empty line end up in the same record.
C16_EmptyLineSkipped ==
    /\ [][EmptyLineRead =>
             /\ stats'.totalLines = stats.totalLines + 1
             /\ stats'.skippedLines = stats.skippedLines + 1
             /\ currentRecord' = currentRecord
             /\ recordType' = recordType
             /\ isProcessingMessage' = isProcessingMessage
             /\ batch' = batch /\ pc' = pc
             /\ trace'.records = trace.records]_vars
    /\ [](trace.on /\ trace.ended =>
             \A k \in 1..Len(StartIndexes) :
                LET i == StartIndexes[k] IN
                (i + 3 <= Len(trace.lines) /\ AroundEmptyLine(i)) =>
                   SubSeq(trace.records[k], 1, 3)
                      = <<trace.lines[i], trace.lines[i + 1], trace.lines[i + 3]>>)

C16_Witness ==
    /\ trace.on /\ trace.ended
    /\ Len(trace.lines) = 4 /\ AroundEmptyLine(1)
    /\ Len(batch) = 1
    /\ stats.totalLines = 4 /\ stats.skippedLines = 1

\* '<id> SMS From <dd/mm/yyyy> From: <phone> <name>'
IsNumberedSMSFrom(l) ==
    /\ ~l.blank /\ l.id /\ l.rtype = "SMS" /\ l.dir = "From" /\ l.date > 0
    /\ l.marker = "From:" /\ l.phone # NoText /\ l.name # NoText /\ l.text = NoText

\* '<HH:MM:SS>(UTC+0) <text>'
IsTimedText(l) == ~l.blank /\ l.rtype = "" /\ l.time > 0 /\ l.text # NoText

\* a numbered start line with a direction token
IsNumberedStart(l) ==
    ~l.blank /\ l.id /\ l.rtype \in {"SMS", "Instant"} /\ l.dir # "" /\ l.date > 0

\* lines i and i + 1 of the file are such a start line and its one
\* continuation line: the file ends there or the next record starts
NumberedSMSFromAt(i) ==
    /\ i + 1 <= Len(trace.lines)
    /\ IsNumberedSMSFrom(trace.lines[i])
    /\ IsTimedText(trace.lines[i + 1])
    /\ i + 2 <= Len(trace.lines) => IsNumberedStart(trace.lines[i + 2])

ParsedAsClaimed(h, start, cont) ==
    /\ h.rawLine = <<start, cont>>
    /\ h.messageType = "SMS" /\ h.direction = "FROM"
    /\ ParsedPhone(h) = start.phone
    /\ (IF h.phoneNumber # NoText THEN h.name ELSE h.senderName) = start.name
    /\ h.content = cont.text
    /\ h.timestamp = parseTimestamp(start.date, cont.time)

\* C17: when the file has been read, every numbered 'SMS From' start line with
\* phone and name that is followed by one continuation line with a time token
\* and a text has been parsed to an SMS, direction FROM, with that phone and
\* name, the text without the time token as content and the date at that time
\* of day as timestamp.
C17_NumberedSMSFromParsed ==
    (trace.on /\ trace.ended) =>
       \A i \in 1..Len(trace.lines) :
          NumberedSMSFromAt(i) =>
             \E k \in 1..Len(handed) :
                ParsedAsClaimed(handed[k], trace.lines[i], trace.lines[i + 1])

\* the direction of a parsed record, from the start line it was parsed from
DirectionRule(h) ==
    LET s == h.rawLine[1] IN
    h.direction = IF s.dir = "From" THEN "FROM"
                  ELSE IF s.dir = "To" THEN "TO"
                  ELSE IF ParsedPhone(h) # NoText THEN "FROM"
                  ELSE "UNKNOWN"

\* phone and name go with the sender of a FROM record and with the receiver
\* of a TO record, and with no other record
AttachRule(h) ==
    /\ h.senderNumber # NoText \/ h.senderName # NoText => h.direction = "FROM"
    /\ h.receiverNumber # NoText \/ h.receiverName # NoText => h.direction = "TO"
    /\ h.phoneNumber # NoText \/ h.name # NoText => h.direction \in {"FROM", "TO"}
    /\ h.rawLine[1].marker # "" => ParsedPhone(h) = h.rawLine[1].phone

\* an SMS or Instant start line, in the format the importer reads, that has
\* no direction token
IsUndirectedStart(l) ==
    /\ ~l.blank /\ l.id = (importer = "smsinstant")
    /\ l.rtype \in {"SMS", "Instant"} /\ l.dir = "" /\ l.date > 0

\* C18: every parsed SMS or Instant record has the direction of its start
\* line's From/To token, and phone and name as sender of a FROM record and as
\* receiver of a TO record; a record whose start line has no direction token
\* is parsed with direction FROM when the line holds a phone number and with
\* direction UNKNOWN when it holds none.
C18_DirectionFromTokenOrPhone ==
    trace.on =>
       /\ \A k \in 1..Len(handed) : DirectionRule(handed[k]) /\ AttachRule(handed[k])
       /\ trace.ended =>
             \A i \in 1..Len(trace.lines) :
                IsUndirectedStart(trace.lines[i]) =>
                   \E k \in 1..Len(handed) :
                      /\ handed[k].rawLine[1] = trace.lines[i]
                      /\ handed[k].direction =
                            IF trace.lines[i].marker # "" THEN "FROM" ELSE "UNKNOWN"

\* the positions, among the continuation lines of a record, of the lines that
\* hold a time token
TimedLines(conts) == {j \in 1..Len(conts) : conts[j].time > 0}

FirstTimed(conts) == CHOOSE j \in TimedLines(conts) : \A k \in TimedLines(conts) : j <= k

\* the content up to and including the first line with a time token, that
\* line giving its text only
ContentUpToFirstTimed(h) ==
    LET s == h.rawLine[1]
        conts == Tail(h.rawLine)
        first == FirstTimed(conts)
        fromStart == IF s.marker = "" /\ s.text # NoText THEN <<s.text>> ELSE <<>>
    IN JoinWith(fromStart \o [j \in 1..first |->
                                 IF j = first THEN conts[j].text
                                 ELSE RawText(conts[j])], <<" ">>)

\* C20: a record parsed by SMSInstantLogParser that has two or more
\* continuation lines with a time token takes the time of day of its
\* timestamp from the first of them, and that line gives the content its text
\* without the time token.
C20_FirstTimeTokenWins ==
    (trace.on /\ importer = "smsinstant") =>
       \A k \in 1..Len(handed) :
          LET h == handed[k]
              conts == Tail(h.rawLine)
              upTo == ContentUpToFirstTimed(h)
          IN Cardinality(TimedLines(conts)) >= 2 =>
                /\ h.timestamp = parseTimestamp(h.rawLine[1].date,
                                                 conts[FirstTimed(conts)].time)
                /\ StartsWith(h.content, upTo)
                /\ Len(h.content) > Len(upTo) => h.content[Len(upTo) + 1] = " "

\* a stored message that was imported from a Calendar record
FromCalendar(msg) == msg.rawLine # <<>> /\ msg.rawLine[1].rtype = "Calendar"

\* C19: every message AdvancedLogImporter stored for a Calendar record has
\* messageType CALENDAR, direction UNKNOWN, no sender and no receiver.
C19_CalendarStoredAsCalendar ==
    importer = "advanced" =>
       \A m \in 1..Len(messages) :
          FromCalendar(messages[m]) =>
             /\ messages[m].messageType = "CALENDAR"
             /\ messages[m].direction = "UNKNOWN"
             /\ messages[m].senderId = NoId
             /\ messages[m].receiverId = NoId

\* the step gives the accumulated record to its parser and the parser returns
\* no result
RecordRejected ==
    /\ trace.on
    /\ Len(trace'.records) = Len(trace.records) + 1
    /\ ~parseFor(importer, currentRecord, recordType).ok

\* C21: when the parser rejects a record the reassembler gave it, errors grows
\* by one and no message is produced for the record.
C21_RejectedRecordCounted ==
    [][RecordRejected =>
          /\ stats'.errors = stats.errors + 1
          /\ handed' = handed /\ batch' = batch]_vars

\* the step is an insertMessage call that throws
InsertFails ==
    /\ pc \in {"flush", "finalflush"} /\ ~options.dryRun
    /\ batch # <<>> /\ Head(batch).timestamp = InvalidDate
    /\ batch' # batch

\* the messages the run has added to the store
Added == SubSeq(messages, Len(store0.messages) + 1, Len(messages))

\* the parsed records of the run whose insert does not throw
Insertable == SelectSeq(handed, LAMBDA h : h.timestamp # InvalidDate)

\* C22: an insert that throws adds one to errors and to nothing else, and the
\* batch goes on with its next message as after a successful insert; when the
\* run has ended normally, every record whose insert did not throw is in the
\* store (or was suppressed as a duplicate of a stored message), and without
\* duplicate suppression the added messages are those records in file order.
C22_InsertErrorCountedRunGoesOn ==
    /\ [][InsertFails =>
             /\ stats' = [stats EXCEPT !.errors = @ + 1]
             /\ batch' = Tail(batch)
             /\ pc' = IF Tail(batch) = <<>> THEN AfterBatch(pc) ELSE pc
             /\ messages' = messages]_vars
    /\ [](pc = "done" /\ ~options.dryRun =>
             /\ batch = <<>>
             /\ \A k \in 1..Len(Insertable) :
                   \E m \in 1..Len(messages) : SameKey(messages[m], Insertable[k])
             /\ ~options.skipDuplicates =>
                   /\ Len(Added) = Len(Insertable)
                   /\ \A k \in 1..Len(Added) :
                         /\ Added[k].rawLine = Insertable[k].rawLine
                         /\ Added[k].timestamp = Insertable[k].timestamp)

C22_Witness ==
    /\ pc = "done" /\ stats.errors = 1
    /\ prevIns.acted /\ ~prevIns.dup /\ prevIns.msg = NoId
    /\ lastIns.acted /\ lastIns.msg = Len(messages)
    /\ options.batchSize = 2 /\ Len(handed) = 2

\* the listed messages that have no earlier message with a sender
WithoutEarlierSender ==
    {id \in 1..Len(messages) :
        /\ messages[id].direction = "TO"
        /\ messages[id].receiverId = NoId
        /\ previousMessage(messages, messages[id].timestamp) = {}}

\* C23: in the receiver backfill the skipped count is the number of messages
\* for which no earlier message with a sender exists; an update that raises
\* an error does not add to it.
C23_SkippedIsNotError ==
    /\ [][(pass.name = "backfill" /\ pass'.faults < pass.faults) =>
             pass'.skippedCount = pass.skippedCount]_vars
    /\ [](pass.name = "backfill" /\ pass.pc = "done" /\ pass.run = 1 =>
             pass.skippedCount = Cardinality(WithoutEarlierSender))

\* C24: a run started without a path, or with the path of a file that does
\* not exist, ends with exit code 1 and does nothing else: it reads no line,
\* flushes no batch and leaves the contacts and messages as they were.
C24_MissingFileExitsFirst ==
    pc # "main" =>
       /\ options.logFile \in {"", "missing"} <=> pc = "exit1"
       /\ pc = "exit1" =>
             /\ linesRead = 0 /\ stats = ZeroStats
             /\ batch = <<>> /\ handed = <<>> /\ ~lastIns.acted
             /\ contacts = store0.contacts /\ messages = store0.messages
             /\ nextContactId = store0.nextContactId

C24_Witness == pc = "exit1" /\ options.logFile = "missing" /\ messages # <<>>

\* C25: while lines are read the buffer holds fewer than batchSize messages;
\* a flush starts at the moment the buffer holds batchSize messages, or at the
\* end of the stream with whatever is left; no line is read during a flush;
\* every parsed record is in the buffer or has gone through a flush, in file
\* order: without duplicate suppression the messages added to the store are
\* the flushed records in the order of the file.
C25_BatchesFlushedInOrder ==
    /\ [](pc = "read" => Len(batch) < options.batchSize)
    /\ [](pc = "done" => batch = <<>>)
    /\ []((pc \in {"read", "flush", "finalflush", "done"} /\ Len(batch) <= Len(handed)) =>
            batch = SubSeq(handed, Len(handed) - Len(batch) + 1, Len(handed)))
    /\ [](~options.dryRun /\ ~options.skipDuplicates =>
            /\ Len(Added) + Len(batch) = Len(handed)
            /\ \A k \in 1..Len(Added) :
                  Added[k] = Row(handed[k], Added[k].senderId, Added[k].receiverId))
    /\ [][/\ (pc = "read" /\ pc' = "flush") => Len(batch') = options.batchSize
          /\ (pc = "read" /\ pc' = "finalflush") => batch' # <<>>
          /\ (pc = "read" /\ pc' = "done") => batch' = <<>>
          /\ linesRead' # linesRead => pc = "read"
          /\ (pc \in {"flush", "finalflush"} /\ pc' \notin {"flush", "finalflush"}) =>
                batch' = <<>>]_vars

C25_Witness ==
    /\ pc = "done" /\ ~options.dryRun /\ ~options.skipDuplicates
    /\ options.batchSize = 2
    /\ Len(handed) = 3 /\ Len(Added) = 3

\* the name a parsed record supplies with its phone number
ParsedName(h) ==
    IF h.phoneNumber # NoText THEN h.name
    ELSE IF h.senderNumber # NoText THEN h.senderName
    ELSE h.receiverName

\* the step inserts the next message of the batch and resolves its phone
\* number to contact c, which exists already
ResolvesExisting(c) ==
    /\ pc \in {"flush", "finalflush"} /\ ~options.dryRun /\ batch # <<>>
    /\ batch' = Tail(batch) /\ lastIns'.acted /\ ~lastIns'.dup
    /\ ParsedPhone(Head(batch)) # NoText
    /\ contacts[c].phoneNumber = ParsedPhone(Head(batch))

\* C26: when a record's phone number resolves to an existing contact that has
\* no name and the record supplies one, the contact gets that name; a contact
\* that has a name keeps it through every step.
C26_NameSetOnceIfAbsent ==
    [][\A c \in Ids(contacts) :
          /\ (ResolvesExisting(c) /\ contacts[c].name = NoText
                 /\ ParsedName(Head(batch)) # NoText) =>
                contacts'[c].name = ParsedName(Head(batch))
          /\ contacts[c].name # NoText =>
                c \in Ids(contacts') /\ contacts'[c].name = contacts[c].name]_vars

\* a merge request was answered
MergeReplied == pass.name = "api" /\ pass.op = "merge"

\* the three roles in which a message references a contact
Roles == {"senderId", "receiverId", "correctedReceiverId"}

StoreUntouched ==
    /\ contacts = store0.contacts
    /\ nextContactId = store0.nextContactId
    /\ messages = store0.messages

\* the store after source was merged into target, told from the store before
MergedStore(source, target) ==
    /\ source \notin DOMAIN contacts
    /\ DOMAIN contacts = DOMAIN store0.contacts \ {source}
    /\ \A c \in DOMAIN contacts :
          /\ contacts[c].phoneNumber = store0.contacts[c].phoneNumber
          /\ contacts[c].name = store0.contacts[c].name
          /\ c # target => contacts[c] = store0.contacts[c]
    /\ DOMAIN messages = DOMAIN store0.messages
    /\ \A i \in DOMAIN messages :
          /\ \A r \in Roles :
                /\ messages[i][r] # source
                /\ messages[i][r] =
                      IF store0.messages[i][r] = source THEN target
                      ELSE store0.messages[i][r]
          /\ \A f \in DOMAIN messages[i] \ Roles :
                messages[i][f] = store0.messages[i][f]

\* C27: POST /merge of two distinct existing contacts either fails and leaves
\* the store as it was or deletes the source, makes every message that
\* referenced the source reference the target in the same role and changes
\* nothing else; a request whose ids are equal, no numbers or no contacts fails
\* and leaves the store as it was.
C27_MergeAtomic ==
    MergeReplied =>
       IF /\ pass.source # pass.target
          /\ pass.source \in DOMAIN store0.contacts
          /\ pass.target \in DOMAIN store0.contacts
       THEN /\ pass.status = 200 => MergedStore(pass.source, pass.target)
            /\ pass.status # 200 => StoreUntouched
       ELSE pass.status # 200 /\ StoreUntouched

C27_Witness ==
    /\ MergeReplied /\ pass.status = 200
    /\ \E i, j \in DOMAIN store0.messages :
          /\ store0.messages[i].senderId = pass.source
          /\ store0.messages[j].receiverId = pass.target

\* C28: a correction pass or a correction call keeps the number of messages
\* and every message's type, timestamp, content and raw line; the receiver
\* backfill also keeps every sender and direction and every message that has a
\* receiver.
C28_CorrectionsKeepMessageBody ==
    [][/\ DOMAIN messages' = DOMAIN messages
       /\ \A i \in DOMAIN messages :
             /\ messages'[i].messageType = messages[i].messageType
             /\ messages'[i].timestamp = messages[i].timestamp
             /\ messages'[i].content = messages[i].content
             /\ messages'[i].rawLine = messages[i].rawLine
             /\ pass.name = "backfill" =>
                   /\ messages'[i].senderId = messages[i].senderId
                   /\ messages'[i].direction = messages[i].direction
                   /\ messages[i].receiverId # NoId =>
                         messages'[i] = messages[i]]_vars

C28_Witness ==
    /\ pass.name = "api" /\ pass.op = "correct" /\ pass.status = 200
    /\ messages[pass.id].direction # store0.messages[pass.id].direction
    /\ messages[pass.id].senderId # store0.messages[pass.id].senderId

SearchReplied == pass.name = "search" /\ pass.pc = "replied"

\* the smaller of two numbers
Least(x, y) == IF x < y THEN x ELSE y

\* the answer lists the target once, before it the nearest earlier messages
\* and after it the nearest later ones, Take of each at most, in ascending
\* order of timestamp
IsWindow(list, target) ==
    LET time(m) == messages[m].timestamp
        at == {i \in DOMAIN list : list[i] = target}
        before == {list[i] : i \in {j \in DOMAIN list : \A p \in at : j < p}}
        after == {list[i] : i \in {j \in DOMAIN list : \A p \in at : j > p}}
        earlier == {m \in DOMAIN messages : time(m) < time(target)}
        later == {m \in DOMAIN messages : time(m) > time(target)}
    IN /\ Cardinality(at) = 1
       /\ \A i, j \in DOMAIN list : i < j =>
              list[i] # list[j] /\ time(list[i]) <= time(list[j])
       /\ before \subseteq earlier /\ after \subseteq later
       /\ Cardinality(before) = Least(Take, Cardinality(earlier))
       /\ Cardinality(after) = Least(Take, Cardinality(later))
       /\ \A m \in earlier \ before : \A x \in before : time(m) <= time(x)
       /\ \A m \in later \ after : \A x \in after : time(x) <= time(m)
       /\ Len(list) <= 2 * Take + 1

\* what the answer to the query must be
SearchAnswer ==
    LET found == matchingMessages(messages, pass.query)
    IN IF found = {}
       THEN pass.status = 200 /\ pass.messages = <<>> /\ pass.targetMessage = NoId
       ELSE /\ pass.status = 200
            /\ pass.targetMessage \in found
            /\ \A m \in found : messages[pass.targetMessage].timestamp
                                     <= messages[m].timestamp
            /\ IsWindow(pass.messages, pass.targetMessage)

\* C29: a search with a non-empty query answers with the earliest matching
\* message as target and the window of its at most Take nearest earlier and
\* at most Take nearest later messages around it, in ascending order and at
\* most 2 * Take + 1 long; when nothing matches, with an empty list and no
\* target.
C29_SearchWindow ==
    SearchReplied /\ pass.query # NoText => SearchAnswer

\* C29, amended: the same for a query that is not blank; a query made of
\* white space only is answered like an absent one
C29_SearchWindowNonBlank ==
    SearchReplied =>
       IF Trim(pass.query) # NoText THEN SearchAnswer
       ELSE pass.status = 400 /\ pass.messages = <<>>

C29_Witness ==
    /\ SearchReplied /\ pass.status = 200
    /\ Len(pass.messages) = 2 * Take + 1
    /\ Cardinality(matchingMessages(messages, pass.query)) = 2
    /\ \E m \in DOMAIN messages :
          m # pass.targetMessage
          /\ messages[m].timestamp = messages[pass.targetMessage].timestamp

\* the contacts of the store before the pass whose numbers normalize to the
\* normalized number of contact c
GroupOf(c) ==
    {d \in DOMAIN store0.contacts :
        normalizePhoneNumber(store0.contacts[d].phoneNumber)
            = normalizePhoneNumber(store0.contacts[c].phoneNumber)}

\* the group of c has collapsed into one contact with the canonical number
\* that holds the messages of all members
Collapsed(c) ==
    \E k \in GroupOf(c) :
       /\ GroupOf(c) \cap DOMAIN contacts = {k}
       /\ contacts[k].phoneNumber
             = normalizePhoneNumber(store0.contacts[c].phoneNumber)
       /\ Referencing(messages, {k}) = Referencing(store0.messages, GroupOf(c))
       /\ Referencing(messages, GroupOf(c) \ {k}) = {}

\* C30: when a run of normalizePhoneNumbers has ended, every group of two or
\* more contacts that shared a normalized number has one survivor, which stores
\* the canonical number and is referenced by all messages of the group, the
\* other members being deleted; also when the group holds more than one
\* non-canonical contact beside the contact that stores the canonical number.
C30_GroupsCollapseToKeeper ==
    (pass.name = "normalize" /\ pass.run = 1 /\ pass.pc \in {"done", "aborted"}) =>
        \A c \in DOMAIN store0.contacts :
            Cardinality(GroupOf(c)) >= 2 => Collapsed(c)

\* the parsed records of Calendar start lines handed to a batch so far
CalendarRecords ==
    {i \in DOMAIN handed : handed[i].rawLine[1].rtype = "Calendar"}

\* C31: every record parsed from a Calendar start line has the event text of
\* the start line as content and a valid timestamp: the date with the start
\* line's time of day when it has one, the date at midnight when it has none.
C31_CalendarContentAndTime ==
    \A i \in CalendarRecords :
       LET start == handed[i].rawLine[1]
       IN /\ handed[i].content = Trim(start.text)
          /\ handed[i].timestamp # InvalidDate
          /\ handed[i].timestamp =
                IF start.time > 0 THEN parseTimestamp(start.date, start.time)
                ELSE parseDate(start.date)

\* the insertMessage call just made persisted a TO message that carried no
\* phone number while the session had resolved no contact yet
ToWithoutAnyContact ==
    /\ Live /\ lastIns.acted /\ ~lastIns.dup /\ lastIns.msg # NoId
    /\ lastIns.direction = "TO" /\ ~lastIns.hasPhone
    /\ lastContactId = NoId

\* C32: a TO record without a phone number that is inserted before the
\* session has resolved any contact is stored with direction UNKNOWN and with
\* neither sender nor receiver.
C32_UnresolvedToStoredUnknown ==
    ToWithoutAnyContact =>
        /\ messages[lastIns.msg].direction = "UNKNOWN"
        /\ messages[lastIns.msg].senderId = NoId
        /\ messages[lastIns.msg].receiverId = NoId

\* the messages that have a sender and no earlier message with a sender
EarliestSenders(msgs) ==
    {m \in DOMAIN msgs :
        /\ msgs[m].senderId # NoId
        /\ \A k \in DOMAIN msgs :
              msgs[k].senderId # NoId => msgs[m].timestamp <= msgs[k].timestamp}

\* the self-reply pass takes the message id from its list in this step
OwnerTakes(id) ==
    /\ pass.name = "owner" /\ pass.pc = "loop"
    /\ id \in pass.queue /\ pass'.queue = pass.queue \ {id}

\* C33: fixPhoneOwnerMessages takes its candidates in ascending order of
\* timestamp; a receiver it assigns is the sender that a strictly earlier
\* message holds in the store at that moment, never one the pass has cleared;
\* the earliest messages that have a sender keep it, so a store that had a
\* sender before the pass has one after it.
C33_OwnerUsesLiveEarlierSender ==
    /\ [][\A id \in DOMAIN messages : OwnerTakes(id) =>
             /\ \A k \in pass.queue :
                   messages[id].timestamp <= messages[k].timestamp
             /\ messages' # messages =>
                   /\ id \notin EarliestSenders(messages)
                   /\ messages'[id].receiverId # NoId
                   /\ \E n \in DOMAIN messages :
                         /\ messages[n].timestamp < messages[id].timestamp
                         /\ messages[n].senderId = messages'[id].receiverId]_vars
    /\ [](pass.name = "owner" =>
             \A m \in EarliestSenders(store0.messages) :
                messages[m] = store0.messages[m])

\* the pass gave a message the sender of an earlier message although a
\* message between the two had a sender before the pass and lost it
C33_Witness ==
    /\ OwnerDone
    /\ \E id, n, c \in DOMAIN messages :
          /\ store0.messages[n].timestamp < store0.messages[c].timestamp
          /\ store0.messages[c].timestamp < store0.messages[id].timestamp
          /\ store0.messages[c].senderId # NoId /\ messages[c].senderId = NoId
          /\ store0.messages[c].senderId # store0.messages[n].senderId
          /\ messages[id] # store0.messages[id]
          /\ messages[id].receiverId = store0.messages[n].senderId

\* C34: with duplicate suppression on in every live run and no two messages
\* of one key in the store at the start, no two messages of the store ever
\* have the same type, direction, timestamp and content, whatever their
\* senders and receivers.
C34_KeysStayUnique ==
    (pass.name = "runs" /\ options.skipDuplicates) =>
        \A i, j \in DOMAIN messages :
            Key(messages[i]) = Key(messages[j]) => i = j

\* a second run has ended; the runs suppressed a record that differed from a
\* stored message in the sender only and a record of their own batch
C34_Witness ==
    /\ pass.name = "runs" /\ pass.run = 2 /\ pc = "done"
    /\ Len(messages) > Len(store0.messages) + 1
    /\ Len(handed) > 1
    /\ \E i, j \in DOMAIN handed :
          /\ i < j /\ Key(handed[i]) = Key(handed[j])
          /\ ParsedPhone(handed[i]) # ParsedPhone(handed[j])

\* C35: an insertMessage call that suppresses a duplicate changes nothing
\* else: no contact is created, contactCache and lastContactId keep their
\* values, and createdMessages, createdContacts and errors stay as they are.
C35_SuppressionChangesNothing ==
    [][SuppressStep =>
          /\ contacts' = contacts /\ nextContactId' = nextContactId
          /\ messages' = messages
          /\ contactCache' = contactCache /\ lastContactId' = lastContactId
          /\ stats'.createdMessages = stats.createdMessages
          /\ stats'.createdContacts = stats.createdContacts
          /\ stats'.errors = stats.errors]_vars

\* the suppressed record carried a phone number that no contact of the store
\* has and that the session had not resolved
C35_Witness ==
    /\ lastIns.acted /\ lastIns.dup /\ lastIns.hasPhone
    /\ handed # <<>>
    /\ \A c \in DOMAIN contacts :
          contacts[c].phoneNumber # ParsedPhone(handed[1])
    /\ ParsedPhone(handed[1]) \notin DOMAIN contactCache
    /\ Len(handed) = 1 /\ batch = <<>>

\* a run of normalizePhoneNumbers has ended or stopped in its catch, or a
\* merge request was answered
MergeOver ==
    \/ pass.name = "normalize" /\ pass.pc \in {"done", "aborted"}
    \/ MergeReplied

\* C36: after normalizePhoneNumbers has ended or has stopped on a failed
\* update, and after POST /merge, every sender and receiver of a message is an
\* existing contact and the store holds as many messages as before.
C36_MergesKeepReferences ==
    MergeOver =>
        /\ Len(messages) = Len(store0.messages)
        /\ \A i \in DOMAIN messages :
              /\ messages[i].senderId \in DOMAIN contacts \cup {NoId}
              /\ messages[i].receiverId \in DOMAIN contacts \cup {NoId}

\* the pass stopped on the unique phone number after it had merged a contact
\* that had sent a message
C36_Witness ==
    /\ pass.name = "normalize" /\ pass.pc = "aborted"
    /\ \E i \in DOMAIN messages :
          /\ store0.messages[i].senderId \notin DOMAIN contacts
          /\ messages[i].senderId \in DOMAIN contacts

\* the messages the runs have inserted
Inserted == {i \in DOMAIN messages : i > Len(store0.messages)}

\* C37: a message inserted by an importer has a sender only when its direction
\* is FROM and a receiver only when its direction is TO; a message of unknown
\* direction has neither.
C37_OneSideByDirection ==
    pass.name = "runs" =>
        \A i \in Inserted :
            /\ messages[i].senderId = NoId \/ messages[i].receiverId = NoId
            /\ messages[i].direction = "FROM" => messages[i].receiverId = NoId
            /\ messages[i].direction = "TO" => messages[i].senderId = NoId
            /\ messages[i].direction = "UNKNOWN" =>
                  messages[i].senderId = NoId /\ messages[i].receiverId = NoId

\* a run inserted a received message with its sender, a sent message with the
\* last contact as receiver, and a message of unknown direction
C37_Witness ==
    /\ pass.name = "runs" /\ pc = "done"
    /\ \E i, j, k \in Inserted :
          /\ messages[i].direction = "FROM" /\ messages[i].senderId # NoId
          /\ messages[j].direction = "TO" /\ messages[j].receiverId # NoId
          /\ messages[k].direction = "UNKNOWN"

\* the contacts the store holds now and did not hold when the run began
HadContacts == IF pass.name = "runs" THEN pass.had ELSE DOMAIN store0.contacts
AddedContacts == DOMAIN contacts \ HadContacts

\* C38: throughout a run of one importer on the store, every cache entry maps
\* a phone string to the id of a stored contact with exactly that phone
\* number, lastContactId is null or the id of a stored contact, no two stored
\* contacts share a phone number, and createdContacts is the number of
\* contacts the run added to the store.
C38_CacheAgreesWithStore ==
    pass.name \in {"none", "runs"} =>
        /\ \A p \in DOMAIN contactCache :
               /\ contactCache[p] \in DOMAIN contacts
               /\ contacts[contactCache[p]].phoneNumber = p
        /\ lastContactId = NoId \/ lastContactId \in DOMAIN contacts
        /\ \A i, j \in DOMAIN contacts :
               contacts[i].phoneNumber = contacts[j].phoneNumber => i = j
        /\ HadContacts \subseteq DOMAIN contacts
        /\ stats.createdContacts = Cardinality(AddedContacts)

\* a run that found one contact in the store and created another
C38_Witness ==
    /\ pass.name = "runs" /\ pc = "done"
    /\ \E p, q \in DOMAIN contactCache :
          /\ contactCache[p] \in HadContacts
          /\ contactCache[q] \in AddedContacts
    /\ stats.createdContacts >= 1

\* the lines of the records, one record after the other
RECURSIVE Flatten(_)
Flatten(records) ==
    IF records = <<>> THEN <<>> ELSE Head(records) \o Flatten(Tail(records))

\* the position of the first record-start line, or one past the last line
FirstStart ==
    IF StartIndexes = <<>> THEN Len(trace.lines) + 1 ELSE StartIndexes[1]

\* the positions of the empty lines and of the lines before the first record
SkippedPositions ==
    {i \in 1..Len(trace.lines) : trace.lines[i].blank \/ i < FirstStart}

\* C39: in SMSInstantLogParser.parseLogFile, at end of stream, totalLines is
\* the number of lines read and equals skippedLines plus the number of lines
\* in the records handed to parseMessageRecord; the skipped lines are the
\* empty lines and the lines before the first record-start line, and the
\* records hold exactly the other lines, in their order.
C39_EveryLineOnce ==
    (trace.on /\ trace.ended /\ importer = "smsinstant") =>
        /\ stats.totalLines = Len(trace.lines)
        /\ stats.totalLines = stats.skippedLines + Len(Flatten(trace.records))
        /\ stats.skippedLines = Cardinality(SkippedPositions)
        /\ Flatten(trace.records)
              = SelectSeq(SubSeq(trace.lines, FirstStart, Len(trace.lines)),
                          LAMBDA l : ~l.blank)

\* a file of four lines: text before the first record, an empty line, and a
\* record of two lines
C39_Witness ==
    /\ trace.on /\ trace.ended /\ importer = "smsinstant"
    /\ Len(trace.lines) = 4
    /\ ~trace.lines[1].blank /\ FirstStart > 1
    /\ \E i \in 2..4 : trace.lines[i].blank
    /\ stats.skippedLines = 2
    /\ Len(trace.records) = 1 /\ Len(trace.records[1]) = 2

\* processBatch has just gone through one message of the batch
InsertStep == batch # <<>> /\ batch' = Tail(batch)

OutcomeInserted ==
    /\ Len(messages') = Len(messages) + 1
    /\ stats'.createdMessages = stats.createdMessages + 1
    /\ stats'.errors = stats.errors

OutcomeSuppressed ==
    /\ options.skipDuplicates /\ isDuplicate(messages, Head(batch))
    /\ messages' = messages
    /\ stats'.createdMessages = stats.createdMessages
    /\ stats'.errors = stats.errors

OutcomeFailed ==
    /\ messages' = messages
    /\ stats'.createdMessages = stats.createdMessages
    /\ stats'.errors = stats.errors + 1

\* C40: in a live run, and so at its end, createdMessages is the number of
\* messages the run added to the store and is at most processedRecords, every
\* parsed record was handed on and counted once, and each record that
\* processBatch goes through ends in exactly one of three outcomes: inserted
\* (createdMessages + 1), suppressed as a duplicate (no counter moves), or
\* failed (errors + 1).
C40_ThreeOutcomes ==
    /\ []((Live /\ pass.name = "none") =>
            /\ stats.createdMessages = Len(messages) - Len(store0.messages)
            /\ stats.processedRecords = Len(handed)
            /\ stats.createdMessages + stats.errors + Len(batch)
                  <= stats.processedRecords
            /\ pc = "done" => batch = <<>>)
    /\ [][(Live /\ pass.name = "none" /\ InsertStep) =>
            /\ stats'.processedRecords = stats.processedRecords
            /\ \/ OutcomeInserted /\ ~OutcomeSuppressed /\ ~OutcomeFailed
               \/ OutcomeSuppressed /\ ~OutcomeInserted /\ ~OutcomeFailed
               \/ OutcomeFailed /\ ~OutcomeInserted /\ ~OutcomeSuppressed]_vars

\* a live run has ended with one record inserted, one suppressed and one failed
C40_Witness ==
    /\ Live /\ pass.name = "none" /\ pc = "done"
    /\ stats.processedRecords = 3
    /\ stats.createdMessages = 1
    /\ stats.errors = 1
    /\ Len(messages) = Len(store0.messages) + 1

====
